---- MODULE Spec2Model ----
(***************************************************************************)
(* Model of the release publishing pipeline of upload-google-play-console  *)
(* (src/src/index.ts, function main and its helpers).  One action per      *)
(* await point of main: the synchronous code that precedes a call, the     *)
(* call itself and the handling of its response.  A throw inside main's    *)
(* try block runs the single catch of line 376, modelled by Throw.         *)
(***************************************************************************)
EXTENDS Integers, Sequences, FiniteSets, TLC

(* ------------------------------ bounds --------------------------------- *)

\* longest directory listing explored
MaxFiles == 3

\* longest listing / releaseNotes array in the metadata input
MaxListings == 2

(* --------------------------- optional values --------------------------- *)

\* null / undefined
None == <<>>

Some(x) == <<x>>

Val(m) == m[1]

(* ------------------------------ inputs --------------------------------- *)

\* directory entries: a name and its suffix (already lower case)
File(stem, ext) == [stem |-> stem, ext |-> ext]

\* entries the glob patterns of line 113 match
ReleaseFiles ==
    { File("app", "apk"), File("app", "aab"), File("main", "obb"), File("symbols", "zip") }

\* an entry no pattern matches
NotesFile == File("notes", "txt")

\* every order of up to n distinct entries out of files
Orderings(files, n) ==
    UNION { { s \in [1..m -> files] : \A j, k \in 1..m : j # k => s[j] # s[k] }
            : m \in 0..n }

\* directory listings: every order of up to MaxFiles release files, and
\* directories that start with an entry the glob leaves out
Listings ==
    Orderings(ReleaseFiles, MaxFiles)
    \cup { <<NotesFile>> \o s : s \in Orderings({File("app", "aab"), File("symbols", "zip")}, 1) }

Languages == <<"en-US", "de-DE", "fr-FR", "ja-JP", "pt-BR">>

ListingFor(k) == [language |-> Languages[k], title |-> "App"]

NotesFor(k) == [language |-> Languages[k], text |-> "notes"]

ImageFor(k) == [language |-> Languages[k], type |-> "icon", path |-> "icon.png"]

Absent == [shape |-> "absent"]

Single(x) == [shape |-> "single", value |-> x]

Array(xs) == [shape |-> "array", items |-> xs]

\* the metadata input: not supplied, not JSON, or a JSON object
MetadataInputs ==
    { [json |-> "absent"],
      [json |-> "invalid"],
      [json |-> "object",
       value |-> [listing |-> Single(ListingFor(1)),
                  releaseNotes |-> Single(NotesFor(1)),
                  images |-> None,
                  countryTargeting |-> None]],
      [json |-> "object",
       value |-> [listing |-> Array([k \in 1..MaxListings |-> ListingFor(k)]),
                  releaseNotes |-> Array([k \in 1..MaxListings |-> NotesFor(k)]),
                  images |-> Some(<<ImageFor(1)>>),
                  countryTargeting |-> Some("US")]] }

DefaultInputs ==
    [githubToken |-> "ghp", credentialsPath |-> "key.json", envCredentials |-> "",
     releaseDirectory |-> "build", releaseName |-> <<>>, track |-> "",
     status |-> "", userFraction |-> "", inAppUpdatePriority |-> "",
     changesNotSentForReview |-> "", metadata |-> [json |-> "absent"]]

\* configurations of the pipeline runs: the defaults, a staged rollout, and
\* one configuration per validation error of lines 21-83
Configs ==
    { DefaultInputs,
      [DefaultInputs EXCEPT !.githubToken = " "],
      [DefaultInputs EXCEPT !.credentialsPath = ""],
      [DefaultInputs EXCEPT !.releaseDirectory = ""],
      [DefaultInputs EXCEPT !.status = "bogus"],
      [DefaultInputs EXCEPT !.userFraction = "1.5"],
      [DefaultInputs EXCEPT !.inAppUpdatePriority = "6"] }

(* ------------------------------- state --------------------------------- *)

VARIABLES
    inputs,               \* core.getInput values and the environment
    dirItems,             \* entries of the release directory
    javaPath,             \* io.which('java'), or None
    toolPath,             \* what io.which('bundletool') resolves to, or None
    cachedTools,          \* tool cache entries of bundletool for process.arch
    tempDir,              \* files under RUNNER_TEMP/.bundletool
    job,                  \* number of the invocation on this host
    extractions,          \* outcome of getPackageInfoAab in each invocation
    invocations,          \* locals of setupBundleTool in each concurrent invocation
    pc,                   \* position in main
    userFraction,         \* hundredths, or None
    inAppUpdatePriority,
    metadata,             \* parsed metadata or None
    warnings,             \* core.warning log
    releaseAssets,        \* glob result
    effects,              \* directory reads and inspection tool runs, in order
    i,                    \* index of the running for-of loop
    apkInfo, aabInfo,
    expansionFiles, symbolFiles,
    versionCode,
    packageName,
    editId,
    calls,                \* remote calls issued, in order, with their outcome
    errors,               \* core.error log
    failed,               \* core.setFailed message, or None
    committed             \* line 375 reached

toolVars == <<javaPath, toolPath, cachedTools, tempDir, job, extractions>>

envVars == <<inputs, dirItems, toolVars, invocations>>

cfgVars == <<userFraction, inAppUpdatePriority, metadata, warnings>>

assetVars == <<releaseAssets, effects, apkInfo, aabInfo, expansionFiles, symbolFiles>>

editVars == <<versionCode, packageName, editId>>

vars == <<inputs, dirItems, javaPath, toolPath, cachedTools, tempDir, job,
          extractions, invocations, pc, userFraction, inAppUpdatePriority, metadata,
          warnings, releaseAssets, effects, i, apkInfo, aabInfo, expansionFiles,
          symbolFiles, versionCode, packageName, editId, calls, errors,
          failed, committed>>

InitOver(configs, listings, metadatas) ==
    /\ \E cfg \in configs, md \in metadatas :
          inputs = [cfg EXCEPT !.metadata = md]
    /\ dirItems \in listings
    /\ javaPath = Some("java")
    /\ toolPath = None
    /\ cachedTools = {}
    /\ tempDir = {}
    /\ job = 1
    /\ extractions = <<>>
    /\ invocations = <<>>
    /\ pc = "ReadInputs"
    /\ userFraction = None
    /\ inAppUpdatePriority = None
    /\ metadata = None
    /\ warnings = <<>>
    /\ releaseAssets = <<>>
    /\ effects = <<>>
    /\ i = 1
    /\ apkInfo = None
    /\ aabInfo = None
    /\ expansionFiles = <<>>
    /\ symbolFiles = <<>>
    /\ versionCode = None
    /\ packageName = None
    /\ editId = None
    /\ calls = <<>>
    /\ errors = <<>>
    /\ failed = None
    /\ committed = FALSE

Init == InitOver(Configs, Listings, MetadataInputs)

\* a catch block that ends the run without core.setFailed
ThrowSwallowed(msg) ==
    /\ failed' = failed
    /\ pc' = "done"

\* the catch block of main: core.setFailed(error)
Throw(msg) ==
    /\ failed' = Some(msg)
    /\ pc' = "done"

(* ------------------------- input validation ---------------------------- *)

\* parseFloat, in hundredths; None is NaN
ParseFloat(s) ==
    CASE s = "-0.5" -> Some(-50)
      [] s = "0"    -> Some(0)
      [] s = "0.1"  -> Some(10)
      [] s = "0.5"  -> Some(50)
      [] s = "1"    -> Some(100)
      [] s = "1.5"  -> Some(150)
      [] OTHER      -> None

\* parseInt(s, 10); None is NaN
ParseInt(s) ==
    CASE s = "-1"  -> Some(-1)
      [] s = "0"   -> Some(0)
      [] s = "3"   -> Some(3)
      [] s = "2.7" -> Some(2)
      [] s = "5"   -> Some(5)
      [] s = "6"   -> Some(6)
      [] OTHER     -> None

ReleaseStatus == IF inputs.status = "" THEN "completed" ELSE inputs.status

Track == IF inputs.track = "" THEN "internal" ELSE inputs.track

ChangesNotSentForReview == inputs.changesNotSentForReview = "true"

UserFractionInvalid(f) == f = None \/ Val(f) < 0 \/ Val(f) > 100

UserFractionIgnored == ReleaseStatus # "inProgress" /\ ReleaseStatus # "halted"

PriorityInvalid(p) == p = None \/ Val(p) < 0 \/ Val(p) > 5

\* ConfigError without the range test of line 81
ConfigErrorNoPriorityCheck ==
    IF inputs.githubToken \in {"", " "}
    THEN Some("A github-token is required!")
    ELSE IF inputs.credentialsPath = "" /\ inputs.envCredentials = ""
    THEN Some("Missing service account credentials")
    ELSE IF inputs.releaseDirectory = ""
    THEN Some("Input required and not supplied: release-directory")
    ELSE IF ReleaseStatus \notin {"completed", "draft", "inProgress", "halted"}
    THEN Some("Invalid release status")
    ELSE IF inputs.userFraction # "" /\ UserFractionInvalid(ParseFloat(inputs.userFraction))
    THEN Some("Invalid user-fraction value")
    ELSE IF inputs.metadata.json = "invalid"
    THEN Some("SyntaxError: metadata is not valid JSON")
    ELSE None

\* the first throw of lines 21-97, or None
ConfigError ==
    IF inputs.githubToken \in {"", " "}
    THEN Some("A github-token is required!")
    ELSE IF inputs.credentialsPath = "" /\ inputs.envCredentials = ""
    THEN Some("Missing service account credentials")
    ELSE IF inputs.releaseDirectory = ""
    THEN Some("Input required and not supplied: release-directory")
    ELSE IF ReleaseStatus \notin {"completed", "draft", "inProgress", "halted"}
    THEN Some("Invalid release status")
    ELSE IF inputs.userFraction # "" /\ UserFractionInvalid(ParseFloat(inputs.userFraction))
    THEN Some("Invalid user-fraction value")
    ELSE IF inputs.inAppUpdatePriority # ""
            /\ PriorityInvalid(ParseInt(inputs.inAppUpdatePriority))
    THEN Some("Invalid inAppUpdatePriority value")
    ELSE IF inputs.metadata.json = "invalid"
    THEN Some("SyntaxError: metadata is not valid JSON")
    ELSE None

\* ReadInputs with the warning of line 69 but without the reset of line 70
ReadInputsKeepFraction ==
    /\ pc = "ReadInputs"
    /\ IF ConfigError # None
       THEN /\ Throw(Val(ConfigError))
            /\ UNCHANGED <<cfgVars>>
       ELSE /\ pc' = "ReadDirectory"
            /\ failed' = failed
            /\ userFraction' =
                  IF inputs.userFraction = ""
                  THEN None
                  ELSE ParseFloat(inputs.userFraction)
            /\ warnings' =
                  IF inputs.userFraction # "" /\ UserFractionIgnored
                  THEN Append(warnings, "user-fraction ignored")
                  ELSE warnings
            /\ inAppUpdatePriority' =
                  IF inputs.inAppUpdatePriority = ""
                  THEN None
                  ELSE ParseInt(inputs.inAppUpdatePriority)
            /\ metadata' =
                  IF inputs.metadata.json = "object"
                  THEN Some(inputs.metadata.value)
                  ELSE None
    /\ UNCHANGED <<envVars, assetVars, editVars, i, calls, errors, committed>>

ReadInputs ==
    /\ pc = "ReadInputs"
    /\ IF ConfigError # None
       THEN /\ Throw(Val(ConfigError))
            /\ UNCHANGED <<cfgVars>>
       ELSE /\ pc' = "ReadDirectory"
            /\ failed' = failed
            /\ userFraction' =
                  IF inputs.userFraction = "" \/ UserFractionIgnored
                  THEN None
                  ELSE ParseFloat(inputs.userFraction)
            /\ warnings' =
                  IF inputs.userFraction # "" /\ UserFractionIgnored
                  THEN Append(warnings, "user-fraction ignored")
                  ELSE warnings
            /\ inAppUpdatePriority' =
                  IF inputs.inAppUpdatePriority = ""
                  THEN None
                  ELSE ParseInt(inputs.inAppUpdatePriority)
            /\ metadata' =
                  IF inputs.metadata.json = "object"
                  THEN Some(inputs.metadata.value)
                  ELSE None
    /\ UNCHANGED <<envVars, assetVars, editVars, i, calls, errors, committed>>

(* ------------------------ asset classification ------------------------- *)

GlobPatterns == {"aab", "apk", "obb", "zip"}

\* Glob with the matches in the reverse of the directory order
GlobReversed(dir, items) ==
    LET matches == SelectSeq(items, LAMBDA f : f.ext \in GlobPatterns)
    IN  [k \in 1..Len(matches) |->
            [dir |-> dir, stem |-> matches[Len(matches) + 1 - k].stem,
             ext |-> matches[Len(matches) + 1 - k].ext]]

\* the glob over the release directory: the full path of every match
Glob(dir, items) ==
    LET matches == SelectSeq(items, LAMBDA f : f.ext \in GlobPatterns)
    IN  [k \in 1..Len(matches) |->
            [dir |-> dir, stem |-> matches[k].stem, ext |-> matches[k].ext]]

\* ReadDirectory without the test of line 110
ReadDirectoryNoEmptyCheck ==
    /\ pc = "ReadDirectory"
    /\ IF Len(Glob(inputs.releaseDirectory, dirItems)) = 0
       THEN /\ Throw("No release assets found in directory")
            /\ UNCHANGED releaseAssets
       ELSE /\ releaseAssets' = Glob(inputs.releaseDirectory, dirItems)
            /\ pc' = "ClassifyAsset"
            /\ failed' = failed
    /\ effects' = Append(effects, <<"readdir", inputs.releaseDirectory>>)
    /\ i' = 1
    /\ UNCHANGED <<envVars, cfgVars, apkInfo, aabInfo, expansionFiles, symbolFiles,
                   editVars, calls, errors, committed>>

ReadDirectory ==
    /\ pc = "ReadDirectory"
    /\ IF Len(dirItems) = 0
       THEN /\ Throw("Release directory is empty")
            /\ UNCHANGED releaseAssets
       ELSE IF Len(Glob(inputs.releaseDirectory, dirItems)) = 0
       THEN /\ Throw("No release assets found in directory")
            /\ UNCHANGED releaseAssets
       ELSE /\ releaseAssets' = Glob(inputs.releaseDirectory, dirItems)
            /\ pc' = "ClassifyAsset"
            /\ failed' = failed
    /\ effects' = Append(effects, <<"readdir", inputs.releaseDirectory>>)
    /\ i' = 1
    /\ UNCHANGED <<envVars, cfgVars, apkInfo, aabInfo, expansionFiles, symbolFiles,
                   editVars, calls, errors, committed>>

(* ------------------------ metadata extraction -------------------------- *)

\* what the inspection tool prints: attributes key=quote value quote; a text
\* is the sequence of its pieces, a number the sequence of its digits
ManifestOutput ==
    << [key |-> "package",             quote |-> "double", value |-> <<"com.example.app">>],
       [key |-> "android:versionCode", quote |-> "double", value |-> <<"7">>],
       [key |-> "android:versionName", quote |-> "double", value |-> <<"1.0">>] >>

BadgingOutput ==
    << [key |-> "package: name", quote |-> "single", value |-> <<"com.example.app">>],
       [key |-> "versionCode",   quote |-> "single", value |-> <<"7">>],
       [key |-> "versionName",   quote |-> "single", value |-> <<"1.0">>] >>

ToolOutputs == { ManifestOutput, BadgingOutput, SubSeq(ManifestOutput, 1, 2) }

\* one invocation of the inspection tool: located or not, exit status, stdout
ToolRuns ==
    { [located |-> TRUE, exit |-> 0, output |-> o] : o \in ToolOutputs }
    \cup { [located |-> TRUE,  exit |-> 1, output |-> <<>>],
           [located |-> FALSE, exit |-> 1, output |-> <<>>] }

\* output.match(/<keys>=["']([^"']+)["']/): the first attribute with one of
\* the keys and a non-empty value
Match(output, keys) ==
    LET hits == SelectSeq(output, LAMBDA t : t.key \in keys /\ t.value # <<>>)
    IN  IF Len(hits) = 0 THEN None ELSE Some(hits[1].value)

PkgMatch(output) == Match(output, {"package"})

VersionCodeMatch(output) == Match(output, {"versionCode", "android:versionCode"})

VersionNameMatch(output) == Match(output, {"versionName", "android:versionName"})

\* GetPackageInfo that does without the version name
GetPackageInfoWithoutVersionName(kind, filePath, run) ==
    IF filePath.ext # kind
    THEN [info |-> None, error |-> "File is not of the expected type"]
    ELSE IF ~run.located
    THEN [info |-> None, error |-> "Failed to locate the inspection tool"]
    ELSE IF run.exit # 0
    THEN [info |-> None, error |-> "Failed to get package name: tool exited with non-zero code"]
    ELSE IF /\ PkgMatch(run.output) # None
            /\ VersionCodeMatch(run.output) # None
    THEN [info |-> Some([packageName |-> Val(PkgMatch(run.output)),
                         versionName |-> IF VersionNameMatch(run.output) # None
                                         THEN Val(VersionNameMatch(run.output))
                                         ELSE <<>>,
                         versionCode |-> Val(VersionCodeMatch(run.output)),
                         filePath    |-> filePath])]
    ELSE [info |-> None, error |-> "Package name not found in the manifest of the release asset"]

\* the body shared by getPackageInfoApk and getPackageInfoAab:
\* [info |-> Some(PackageInfo)] or [info |-> None, error |-> message]
GetPackageInfo(kind, filePath, run) ==
    IF filePath.ext # kind
    THEN [info |-> None, error |-> "File is not of the expected type"]
    ELSE IF ~run.located
    THEN [info |-> None, error |-> "Failed to locate the inspection tool"]
    ELSE IF run.exit # 0
    THEN [info |-> None, error |-> "Failed to get package name: tool exited with non-zero code"]
    ELSE IF /\ PkgMatch(run.output) # None
            /\ VersionCodeMatch(run.output) # None
            /\ VersionNameMatch(run.output) # None
    THEN [info |-> Some([packageName |-> Val(PkgMatch(run.output)),
                         versionName |-> Val(VersionNameMatch(run.output)),
                         versionCode |-> Val(VersionCodeMatch(run.output)),
                         filePath    |-> filePath])]
    ELSE [info |-> None, error |-> "Package name not found in the manifest of the release asset"]

getPackageInfoApk(filePath, run) == GetPackageInfo("apk", filePath, run)

getPackageInfoAab(filePath, run) == GetPackageInfo("aab", filePath, run)

\* getReleaseName with the two fields exchanged
getReleaseNameSwapped(info) == info.versionName \o <<" (">> \o info.versionCode \o <<")">>

\* PackageInfo.getReleaseName: `${versionCode} (${versionName})`
getReleaseName(info) == info.versionCode \o <<" (">> \o info.versionName \o <<")">>

\* one iteration of the loop of lines 130-142
ClassifyAsset ==
    /\ pc = "ClassifyAsset"
    /\ LET assetPath == releaseAssets[i]
           Continue  == /\ i' = i + 1
                        /\ pc' = IF i = Len(releaseAssets) THEN "InsertEdit" ELSE pc
                        /\ failed' = failed
       IN  CASE assetPath.ext = "apk" ->
                  IF apkInfo # None
                  THEN /\ Throw("Multiple APK files found in release assets")
                       /\ UNCHANGED <<i, effects, apkInfo, aabInfo, expansionFiles, symbolFiles>>
                  ELSE \E run \in ToolRuns :
                         LET r == getPackageInfoApk(assetPath, run)
                         IN  /\ effects' = Append(effects, <<"inspect", assetPath, run>>)
                             /\ IF r.info = None
                                THEN /\ Throw(r.error)
                                     /\ UNCHANGED <<i, apkInfo, aabInfo, expansionFiles, symbolFiles>>
                                ELSE /\ apkInfo' = r.info
                                     /\ Continue
                                     /\ UNCHANGED <<aabInfo, expansionFiles, symbolFiles>>
             [] assetPath.ext = "aab" ->
                  IF aabInfo # None
                  THEN /\ Throw("Multiple AAB files found in release assets")
                       /\ UNCHANGED <<i, effects, apkInfo, aabInfo, expansionFiles, symbolFiles>>
                  ELSE \E run \in ToolRuns :
                         LET r == getPackageInfoAab(assetPath, run)
                         IN  /\ effects' = Append(effects, <<"inspect", assetPath, run>>)
                             /\ IF r.info = None
                                THEN /\ Throw(r.error)
                                     /\ UNCHANGED <<i, apkInfo, aabInfo, expansionFiles, symbolFiles>>
                                ELSE /\ aabInfo' = r.info
                                     /\ Continue
                                     /\ UNCHANGED <<apkInfo, expansionFiles, symbolFiles>>
             [] assetPath.ext = "obb" ->
                  /\ expansionFiles' = Append(expansionFiles, assetPath)
                  /\ Continue
                  /\ UNCHANGED <<effects, apkInfo, aabInfo, symbolFiles>>
             [] assetPath.ext = "zip" ->
                  /\ symbolFiles' = Append(symbolFiles, assetPath)
                  /\ Continue
                  /\ UNCHANGED <<effects, apkInfo, aabInfo, expansionFiles>>
             [] OTHER ->
                  /\ Continue
                  /\ UNCHANGED <<effects, apkInfo, aabInfo, expansionFiles, symbolFiles>>
    /\ UNCHANGED <<envVars, cfgVars, releaseAssets, editVars, calls, errors, committed>>

(* --------------------------- remote service ---------------------------- *)

\* a remote call resolves with ok, resolves with a non-ok status, or rejects
Responses == {"ok", "notok", "throw"}

\* a request of the publisher client and how it ended
Call(op, pkg, edit, arg, res, data) ==
    [op |-> op, packageName |-> pkg, editId |-> edit, arg |-> arg,
     res |-> res, data |-> data]

\* edit ids the remote service answers an insert with; None: no id in the body
EditIds == {Some("edit-1"), None}

\* version codes the remote service answers an upload with; None: none in the body
UploadedVersionCodes == {None, Some(0), Some(12)}

\* track lists the remote service answers with; None: no tracks in the body
TrackLists == {None, Some(<<>>), Some(<<"beta", "internal">>), Some(<<"alpha", "beta">>)}

\* releases the track already holds: none, or two that both carry the
\* version code the upload returns
ExistingReleases ==
    { <<>>,
      << [name |-> <<"old">>, status |-> "completed",
          versionCodes |-> << <<"6">>, <<"1", "2">> >>],
         [name |-> <<"staged">>, status |-> "draft",
          versionCodes |-> << <<"1", "2">> >>] >> }

\* InsertEdit without the test of lines 148-150: the edit is requested for
\* a null package name
InsertEditNoPackageCheck ==
    /\ pc = "InsertEdit"
    /\ LET name == IF apkInfo # None THEN Val(apkInfo).packageName
                   ELSE IF aabInfo # None THEN Val(aabInfo).packageName
                   ELSE <<>>
       IN  IF apkInfo # None /\ aabInfo # None
           THEN /\ Throw("Cannot upload both APK and AAB files in the same release")
                /\ UNCHANGED <<packageName, editId, calls>>
           ELSE \E res \in Responses, id \in EditIds :
                  /\ packageName' = Some(name)
                  /\ calls' = Append(calls,
                        Call("edits.insert", name, None, None, res,
                             IF res = "ok" THEN id ELSE None))
                  /\ IF res = "throw"
                     THEN Throw("edits.insert rejected") /\ UNCHANGED editId
                     ELSE IF res # "ok"
                     THEN Throw("Failed to create edit") /\ UNCHANGED editId
                     ELSE /\ editId' = id
                          /\ pc' = IF apkInfo # None THEN "UploadApk" ELSE "UploadAab"
                          /\ failed' = failed
    /\ UNCHANGED <<envVars, cfgVars, assetVars, versionCode, i, errors, committed>>

\* lines 144-161
InsertEdit ==
    /\ pc = "InsertEdit"
    /\ LET name == IF apkInfo # None THEN Some(Val(apkInfo).packageName)
                   ELSE IF aabInfo # None THEN Some(Val(aabInfo).packageName)
                   ELSE None
       IN  IF apkInfo # None /\ aabInfo # None
           THEN /\ Throw("Cannot upload both APK and AAB files in the same release")
                /\ UNCHANGED <<packageName, editId, calls>>
           ELSE IF name = None
           THEN /\ Throw("Failed to determine package name from release assets")
                /\ UNCHANGED <<packageName, editId, calls>>
           ELSE \E res \in Responses, id \in EditIds :
                  /\ packageName' = name
                  /\ calls' = Append(calls,
                        Call("edits.insert", Val(name), None, None, res,
                             IF res = "ok" THEN id ELSE None))
                  /\ IF res = "throw"
                     THEN Throw("edits.insert rejected") /\ UNCHANGED editId
                     ELSE IF res # "ok"
                     THEN Throw("Failed to create edit") /\ UNCHANGED editId
                     ELSE /\ editId' = id
                          /\ pc' = IF apkInfo # None THEN "UploadApk" ELSE "UploadAab"
                          /\ failed' = failed
    /\ UNCHANGED <<envVars, cfgVars, assetVars, versionCode, i, errors, committed>>

(* ------------------------- artifact uploads ---------------------------- *)

\* !response.data.versionCode
NoVersionCode(v) == v = None \/ v = Some(0)

\* path.toLowerCase().includes(word), on the whole path
PathIncludes(path, word) == path.dir = word \/ path.stem = word

\* lines 183-187
ExpansionFileType(obbPath) ==
    IF PathIncludes(obbPath, "main") THEN Some("main")
    ELSE IF PathIncludes(obbPath, "patch") THEN Some("patch")
    ELSE None

\* DeobfuscationFileType that tells a ProGuard mapping by its name
DeobfuscationFileTypeByName(symbolPath) ==
    IF symbolPath.stem = "mapping" THEN "proguard" ELSE "nativeCode"

\* line 243
DeobfuscationFileType(symbolPath) ==
    IF symbolPath.ext = "zip" THEN "nativeCode" ELSE "proguard"

AfterExpansionFiles == IF Len(symbolFiles) > 0 THEN "UploadSymbolFile" ELSE "ListTracks"

AfterUploadApk ==
    IF Len(expansionFiles) > 0 THEN "UploadExpansionFile" ELSE AfterExpansionFiles

\* UploadPrimary without the version code check of lines 177 and 228
UploadPrimaryNoVersionCheck(op, info, what, next) ==
    \E res \in Responses, vc \in UploadedVersionCodes :
       /\ calls' = Append(calls,
             Call(op, info.packageName, editId, [file |-> info.filePath], res,
                  IF res = "ok" THEN vc ELSE None))
       /\ IF res # "ok"
          THEN Throw("primary upload failed") /\ UNCHANGED versionCode
          ELSE /\ versionCode' = vc
               /\ pc' = next
               /\ failed' = failed

\* the primary upload of lines 163-179 (APK) and 215-233 (bundle)
UploadPrimary(op, info, what, next) ==
    \E res \in Responses, vc \in UploadedVersionCodes :
       /\ calls' = Append(calls,
             Call(op, info.packageName, editId, [file |-> info.filePath], res,
                  IF res = "ok" THEN vc ELSE None))
       /\ IF res = "throw"
          THEN Throw("primary upload rejected") /\ UNCHANGED versionCode
          ELSE IF res # "ok"
          THEN Throw(IF what = "APK" THEN "Failed to upload APK"
                                     ELSE "Failed to upload AAB")
               /\ UNCHANGED versionCode
          ELSE IF NoVersionCode(vc)
          THEN Throw(IF what = "APK"
                     THEN "Failed to retrieve version code from uploaded APK"
                     ELSE "Failed to retrieve version code from uploaded AAB")
               /\ UNCHANGED versionCode
          ELSE /\ versionCode' = vc
               /\ pc' = next
               /\ failed' = failed

\* lines 163-179
UploadApk ==
    /\ pc = "UploadApk"
    /\ UploadPrimary("edits.apks.upload", Val(apkInfo), "APK", AfterUploadApk)
    /\ i' = 1
    /\ UNCHANGED <<envVars, cfgVars, assetVars, packageName, editId, errors, committed>>

\* UploadAab followed by the expansion-file loop
UploadAabThenExpansionFiles ==
    /\ pc = "UploadAab"
    /\ UploadPrimary("edits.bundles.upload", Val(aabInfo), "AAB", AfterUploadApk)
    /\ i' = 1
    /\ UNCHANGED <<envVars, cfgVars, assetVars, packageName, editId, errors, committed>>

\* lines 215-233
UploadAab ==
    /\ pc = "UploadAab"
    /\ UploadPrimary("edits.bundles.upload", Val(aabInfo), "AAB", AfterExpansionFiles)
    /\ i' = 1
    /\ UNCHANGED <<envVars, cfgVars, assetVars, packageName, editId, errors, committed>>

\* Auxiliary with the request sent outside the edit
AuxiliaryWithoutEdit(op, arg, item, res) ==
    /\ calls' = Append(calls, Call(op, Val(packageName), None, arg, res, None))
    /\ errors' = IF res = "ok" THEN errors ELSE Append(errors, <<op, item>>)

\* an auxiliary call inside a try/catch of its own: the request is recorded and
\* a failure is logged with core.error
Auxiliary(op, arg, item, res) ==
    /\ calls' = Append(calls, Call(op, Val(packageName), editId, arg, res, None))
    /\ errors' = IF res = "ok" THEN errors ELSE Append(errors, <<op, item>>)

\* UploadExpansionFile that sends the version code of the APK manifest
UploadExpansionFileManifestCode ==
    /\ pc = "UploadExpansionFile"
    /\ LET obbPath == expansionFiles[i]
           type    == ExpansionFileType(obbPath)
       IN  IF type = None
           THEN /\ errors' = Append(errors, <<"Skipping OBB expansion file", obbPath>>)
                /\ UNCHANGED calls
           ELSE \E res \in Responses :
                   Auxiliary("edits.expansionfiles.upload",
                             [apkVersionCode |-> IF Val(apkInfo).versionCode = <<"7">> THEN 7 ELSE 0,
                              expansionFileType |-> Val(type),
                              file |-> obbPath],
                             obbPath, res)
    /\ i' = IF i = Len(expansionFiles) THEN 1 ELSE i + 1
    /\ pc' = IF i = Len(expansionFiles) THEN AfterExpansionFiles ELSE pc
    /\ UNCHANGED <<envVars, cfgVars, assetVars, editVars, failed, committed>>

\* one iteration of the loop of lines 181-212
UploadExpansionFile ==
    /\ pc = "UploadExpansionFile"
    /\ LET obbPath == expansionFiles[i]
           type    == ExpansionFileType(obbPath)
       IN  IF type = None
           THEN /\ errors' = Append(errors, <<"Skipping OBB expansion file", obbPath>>)
                /\ UNCHANGED calls
           ELSE \E res \in Responses :
                   Auxiliary("edits.expansionfiles.upload",
                             [apkVersionCode |-> Val(versionCode),
                              expansionFileType |-> Val(type),
                              file |-> obbPath],
                             obbPath, res)
    /\ i' = IF i = Len(expansionFiles) THEN 1 ELSE i + 1
    /\ pc' = IF i = Len(expansionFiles) THEN AfterExpansionFiles ELSE pc
    /\ UNCHANGED <<envVars, cfgVars, assetVars, editVars, failed, committed>>

\* UploadSymbolFile without the try/catch of lines 236-254
UploadSymbolFileUncaught ==
    /\ pc = "UploadSymbolFile"
    /\ \E res \in Responses :
          /\ calls' = Append(calls,
                Call("edits.deobfuscationfiles.upload", Val(packageName), editId,
                     [apkVersionCode |-> Val(versionCode),
                      deobfuscationFileType |-> "nativeCode",
                      file |-> symbolFiles[i]], res, None))
          /\ IF res # "ok"
             THEN Throw("deobfuscation file upload failed") /\ UNCHANGED <<i>>
             ELSE /\ i' = IF i = Len(symbolFiles) THEN 1 ELSE i + 1
                  /\ pc' = IF i = Len(symbolFiles) THEN "ListTracks" ELSE pc
                  /\ failed' = failed
    /\ UNCHANGED <<envVars, cfgVars, assetVars, editVars, errors, committed>>

\* UploadSymbolFile that sends a failed archive a second time
UploadSymbolFileRetried ==
    /\ pc = "UploadSymbolFile"
    /\ LET symbolPath == symbolFiles[i]
           sent == { k \in 1..Len(calls) :
                       /\ calls[k].op = "edits.deobfuscationfiles.upload"
                       /\ calls[k].arg.file = symbolPath }
       IN  \E res \in Responses :
              /\ Auxiliary("edits.deobfuscationfiles.upload",
                           [apkVersionCode |-> Val(versionCode),
                            deobfuscationFileType |-> "nativeCode",
                            file |-> symbolPath],
                           symbolPath, res)
              /\ IF res # "ok" /\ sent = {}
                 THEN UNCHANGED <<i, pc>>
                 ELSE /\ i' = IF i = Len(symbolFiles) THEN 1 ELSE i + 1
                      /\ pc' = IF i = Len(symbolFiles) THEN "ListTracks" ELSE pc
    /\ UNCHANGED <<envVars, cfgVars, assetVars, editVars, failed, committed>>

\* one iteration of the loop of lines 235-255
UploadSymbolFile ==
    /\ pc = "UploadSymbolFile"
    /\ LET symbolPath == symbolFiles[i]
       IN  \E res \in Responses :
              Auxiliary("edits.deobfuscationfiles.upload",
                        [apkVersionCode |-> Val(versionCode),
                         deobfuscationFileType |-> DeobfuscationFileType(symbolPath),
                         file |-> symbolPath],
                        symbolPath, res)
    /\ i' = IF i = Len(symbolFiles) THEN 1 ELSE i + 1
    /\ pc' = IF i = Len(symbolFiles) THEN "ListTracks" ELSE pc
    /\ UNCHANGED <<envVars, cfgVars, assetVars, editVars, failed, committed>>

(* ------------------------------ track ---------------------------------- *)

\* ListTracks without the lookup of lines 265-266
ListTracksNoLookup ==
    /\ pc = "ListTracks"
    /\ \E res \in Responses, tracks \in TrackLists :
          /\ calls' = Append(calls,
                Call("edits.tracks.list", Val(packageName), editId, None, res,
                     IF res = "ok" THEN tracks ELSE None))
          /\ IF res # "ok"
             THEN Throw("Failed to list tracks")
             ELSE /\ pc' = "GetTrack"
                  /\ failed' = failed
    /\ UNCHANGED <<envVars, cfgVars, assetVars, editVars, i, errors, committed>>

\* lines 257-266
ListTracks ==
    /\ pc = "ListTracks"
    /\ \E res \in Responses, tracks \in TrackLists :
          /\ calls' = Append(calls,
                Call("edits.tracks.list", Val(packageName), editId, None, res,
                     IF res = "ok" THEN tracks ELSE None))
          /\ IF res = "throw"
             THEN Throw("edits.tracks.list rejected")
             ELSE IF res # "ok"
             THEN Throw("Failed to list tracks")
             ELSE IF tracks = None \/ \A k \in 1..Len(Val(tracks)) : Val(tracks)[k] # Track
             THEN Throw("Track does not exist")
             ELSE /\ pc' = "GetTrack"
                  /\ failed' = failed
    /\ UNCHANGED <<envVars, cfgVars, assetVars, editVars, i, errors, committed>>

\* GetTrack without the check of line 276
GetTrackUnchecked ==
    /\ pc = "GetTrack"
    /\ \E res \in {"ok", "notok"}, existing \in ExistingReleases :
          /\ calls' = Append(calls,
                Call("edits.tracks.get", Val(packageName), editId, [track |-> Track], res,
                     IF res = "ok" THEN existing ELSE <<>>))
          /\ pc' = "UpdateTrack"
          /\ failed' = failed
    /\ UNCHANGED <<envVars, cfgVars, assetVars, editVars, i, errors, committed>>

\* lines 268-276
GetTrack ==
    /\ pc = "GetTrack"
    /\ \E res \in Responses, existing \in ExistingReleases :
          /\ calls' = Append(calls,
                Call("edits.tracks.get", Val(packageName), editId, [track |-> Track], res,
                     IF res = "ok" THEN existing ELSE <<>>))
          /\ IF res = "throw"
             THEN Throw("edits.tracks.get rejected")
             ELSE IF res # "ok"
             THEN Throw("Failed to get track info")
             ELSE /\ pc' = "UpdateTrack"
                  /\ failed' = failed
    /\ UNCHANGED <<envVars, cfgVars, assetVars, editVars, i, errors, committed>>

\* AsArray that keeps the elements of an array in reverse order
AsArrayReversed(x) ==
    CASE x.shape = "array"  -> [k \in 1..Len(x.items) |-> x.items[Len(x.items) + 1 - k]]
      [] x.shape = "single" -> <<x.value>>
      [] OTHER              -> <<>>

\* value given as one object or as an array: Array.isArray(x) ? x : [x]
AsArray(x) ==
    CASE x.shape = "array"  -> x.items
      [] x.shape = "single" -> <<x.value>>
      [] OTHER              -> <<>>

\* lines 278-282: undefined when no release notes are supplied
ReleaseNotes ==
    IF metadata = None \/ Val(metadata).releaseNotes.shape = "absent"
    THEN None
    ELSE Some(AsArray(Val(metadata).releaseNotes))

Digit(d) ==
    CASE d = 0 -> "0" [] d = 1 -> "1" [] d = 2 -> "2" [] d = 3 -> "3" [] d = 4 -> "4"
      [] d = 5 -> "5" [] d = 6 -> "6" [] d = 7 -> "7" [] d = 8 -> "8" [] d = 9 -> "9"

\* `${n}` of a non-negative integer: its decimal digits
RECURSIVE NumToString(_)
NumToString(n) ==
    IF n < 10 THEN <<Digit(n)>> ELSE NumToString(n \div 10) \o <<Digit(n % 10)>>

\* NewRelease with the version code of the package manifest instead of the
\* one the upload returned
NewReleaseFromManifest ==
    [name |-> IF inputs.releaseName # <<>>
              THEN inputs.releaseName
              ELSE getReleaseName(Val(IF apkInfo # None THEN apkInfo ELSE aabInfo)),
     status |-> ReleaseStatus,
     versionCodes |-> <<Val(IF apkInfo # None THEN apkInfo ELSE aabInfo).versionCode>>,
     userFraction |-> userFraction,
     releaseNotes |-> ReleaseNotes,
     countryTargeting |-> IF metadata = None THEN None ELSE Val(metadata).countryTargeting,
     inAppUpdatePriority |-> inAppUpdatePriority]

\* lines 284-292
NewRelease ==
    [name |-> IF inputs.releaseName # <<>>
              THEN inputs.releaseName
              ELSE getReleaseName(Val(IF apkInfo # None THEN apkInfo ELSE aabInfo)),
     status |-> ReleaseStatus,
     versionCodes |-> <<NumToString(Val(versionCode))>>,
     userFraction |-> userFraction,
     releaseNotes |-> ReleaseNotes,
     countryTargeting |-> IF metadata = None THEN None ELSE Val(metadata).countryTargeting,
     inAppUpdatePriority |-> inAppUpdatePriority]

\* the releases the last edits.tracks.get answered with
ReleasesOnTrack ==
    LET gets == SelectSeq(calls, LAMBDA c : c.op = "edits.tracks.get")
    IN  IF Len(gets) = 0 THEN <<>> ELSE gets[Len(gets)].data

\* the new release added after the releases the track already holds
SubmittedReleasesAppended == ReleasesOnTrack \o <<NewRelease>>

\* the new release put before the releases the track already holds
SubmittedReleasesMerged == <<NewRelease>> \o ReleasesOnTrack

\* line 302
SubmittedReleases == <<NewRelease>>

\* the listings of lines 308-311 and the images of line 332
ListingsToUpdate == IF metadata = None THEN <<>> ELSE AsArray(Val(metadata).listing)

ImagesToUpload ==
    IF metadata = None \/ Val(metadata).images = None THEN <<>> ELSE Val(Val(metadata).images)

AfterListings == IF Len(ImagesToUpload) > 0 THEN "UploadImage" ELSE "Validate"

\* AfterUpdateTrack that reads the track again after the first update
AfterUpdateTrackReread ==
    IF Cardinality({ k \in 1..Len(calls) : calls[k].op = "edits.tracks.get" }) < 2
    THEN "GetTrack"
    ELSE IF Len(ListingsToUpdate) > 0 THEN "UpdateListing" ELSE AfterListings

AfterUpdateTrack == IF Len(ListingsToUpdate) > 0 THEN "UpdateListing" ELSE AfterListings

\* UpdateTrack with a rejected update logged instead of thrown
UpdateTrackBestEffort ==
    /\ pc = "UpdateTrack"
    /\ \E res \in Responses :
          /\ calls' = Append(calls,
                Call("edits.tracks.update", Val(packageName), editId,
                     [track |-> Track, releases |-> SubmittedReleases], res, None))
          /\ errors' = IF res = "ok" THEN errors ELSE Append(errors, <<"edits.tracks.update", Track>>)
    /\ pc' = AfterUpdateTrack
    /\ i' = 1
    /\ UNCHANGED <<envVars, cfgVars, assetVars, editVars, failed, committed>>

\* lines 278-306
UpdateTrack ==
    /\ pc = "UpdateTrack"
    /\ \E res \in Responses :
          /\ calls' = Append(calls,
                Call("edits.tracks.update", Val(packageName), editId,
                     [track |-> Track, releases |-> SubmittedReleases], res, None))
          /\ IF res = "throw"
             THEN Throw("edits.tracks.update rejected")
             ELSE IF res # "ok"
             THEN Throw("Failed to update track")
             ELSE /\ pc' = AfterUpdateTrack
                  /\ failed' = failed
    /\ i' = 1
    /\ UNCHANGED <<envVars, cfgVars, assetVars, editVars, errors, committed>>

(* ----------------------- listings and images --------------------------- *)

\* one iteration of the loop of lines 313-329
UpdateListing ==
    /\ pc = "UpdateListing"
    /\ LET listing == ListingsToUpdate[i]
       IN  \E res \in Responses :
              Auxiliary("edits.listings.update",
                        [language |-> listing.language, requestBody |-> listing],
                        listing, res)
    /\ i' = IF i = Len(ListingsToUpdate) THEN 1 ELSE i + 1
    /\ pc' = IF i = Len(ListingsToUpdate) THEN AfterListings ELSE pc
    /\ UNCHANGED <<envVars, cfgVars, assetVars, editVars, failed, committed>>

\* one iteration of the loop of lines 333-354; resolvePath throws inside the
\* try when the image file does not exist
UploadImage ==
    /\ pc = "UploadImage"
    /\ LET image == ImagesToUpload[i]
       IN  \E res \in Responses \cup {"nofile"} :
              IF res = "nofile"
              THEN /\ errors' = Append(errors, <<"edits.images.upload", image>>)
                   /\ UNCHANGED calls
              ELSE Auxiliary("edits.images.upload",
                             [language |-> image.language, imageType |-> image.type,
                              file |-> image.path],
                             image, res)
    /\ i' = IF i = Len(ImagesToUpload) THEN 1 ELSE i + 1
    /\ pc' = IF i = Len(ImagesToUpload) THEN "Validate" ELSE pc
    /\ UNCHANGED <<envVars, cfgVars, assetVars, editVars, failed, committed>>

(* ------------------------ validate and commit -------------------------- *)

\* Validate with the response ignored
ValidateUnchecked ==
    /\ pc = "Validate"
    /\ \E res \in Responses :
          calls' = Append(calls,
                Call("edits.validate", Val(packageName), editId, None, res, None))
    /\ pc' = "Commit"
    /\ UNCHANGED <<envVars, cfgVars, assetVars, editVars, i, errors, failed, committed>>

\* lines 357-364
Validate ==
    /\ pc = "Validate"
    /\ \E res \in Responses :
          /\ calls' = Append(calls,
                Call("edits.validate", Val(packageName), editId, None, res, None))
          /\ IF res = "throw"
             THEN Throw("edits.validate rejected")
             ELSE IF res # "ok"
             THEN Throw("Failed to validate edit")
             ELSE /\ pc' = "Commit"
                  /\ failed' = failed
    /\ UNCHANGED <<envVars, cfgVars, assetVars, editVars, i, errors, committed>>

\* Commit with the response ignored
CommitUnchecked ==
    /\ pc = "Commit"
    /\ \E res \in Responses :
          calls' = Append(calls,
                Call("edits.commit", Val(packageName), editId,
                     [changesNotSentForReview |-> ChangesNotSentForReview], res, None))
    /\ committed' = TRUE
    /\ pc' = "done"
    /\ UNCHANGED <<envVars, cfgVars, assetVars, editVars, i, errors, failed>>

\* lines 366-375
Commit ==
    /\ pc = "Commit"
    /\ \E res \in Responses :
          /\ calls' = Append(calls,
                Call("edits.commit", Val(packageName), editId,
                     [changesNotSentForReview |-> ChangesNotSentForReview], res, None))
          /\ IF res = "throw"
             THEN Throw("edits.commit rejected") /\ UNCHANGED committed
             ELSE IF res # "ok"
             THEN Throw("Failed to commit edit") /\ UNCHANGED committed
             ELSE /\ committed' = TRUE
                  /\ pc' = "done"
                  /\ failed' = failed
    /\ UNCHANGED <<envVars, cfgVars, assetVars, editVars, i, errors>>

(* --------------------------- specification ----------------------------- *)

Next ==
    \/ ReadInputs
    \/ ReadDirectory
    \/ ClassifyAsset
    \/ InsertEdit
    \/ UploadApk
    \/ UploadExpansionFile
    \/ UploadAab
    \/ UploadSymbolFile
    \/ ListTracks
    \/ GetTrack
    \/ UpdateTrack
    \/ UpdateListing
    \/ UploadImage
    \/ Validate
    \/ Commit

Spec == Init /\ [][Next]_vars

(* ------------------- runs over other input universes ------------------- *)

\* release directories with up to two packages of a kind; the configuration
\* is the default one
ClassifyFiles ==
    { File("app", "apk"), File("base", "apk"), File("app", "aab"), File("base", "aab"),
      File("main", "obb"), File("symbols", "zip") }

ClassifyListings == Orderings(ClassifyFiles, MaxFiles)

ClassifyMetadata ==
    { [json |-> "object",
       value |-> [listing |-> Single(ListingFor(1)),
                  releaseNotes |-> Absent,
                  images |-> Some(<<ImageFor(1)>>),
                  countryTargeting |-> None]] }

InitClassify == InitOver({DefaultInputs}, ClassifyListings, ClassifyMetadata)

SpecClassify == InitClassify /\ [][Next]_vars

\* values of the validated inputs: accepted ones, boundary ones and rejected
\* ones ("" is an input that is not supplied)
StatusInputs == {"", "draft", "inProgress", "halted", "completed", "bogus"}

UserFractionInputs == {"", "-0.5", "0", "0.5", "1", "1.5", "abc"}

PriorityInputs == {"", "-1", "0", "5", "6", "x"}

\* every status with every user-fraction, and the other inputs varied one
\* at a time
ConfigInputs ==
    { [DefaultInputs EXCEPT !.status = s, !.userFraction = f] :
         s \in StatusInputs, f \in UserFractionInputs }
    \cup { [DefaultInputs EXCEPT !.inAppUpdatePriority = p] : p \in PriorityInputs }
    \cup { [DefaultInputs EXCEPT !.githubToken = t] : t \in {"", " "} }
    \cup { [DefaultInputs EXCEPT !.credentialsPath = "", !.envCredentials = e] :
             e \in {"", "env.json"} }
    \cup { [DefaultInputs EXCEPT !.releaseDirectory = ""],
           [DefaultInputs EXCEPT !.releaseName = <<"nightly">>] }

ConfigListings ==
    { <<File("app", "apk"), File("main", "obb")>>,
      <<File("app", "aab"), File("symbols", "zip")>> }

ConfigMetadata == ClassifyMetadata \cup { [json |-> "invalid"] }

InitConfig == InitOver(ConfigInputs, ConfigListings, ConfigMetadata)

SpecConfig == InitConfig /\ [][Next]_vars

\* metadata objects whose listing carries every field of the Listing
\* interface, or only some of them
CompleteListing ==
    [language |-> "en-US", title |-> "App", fullDescription |-> "Full",
     shortDescription |-> "Short", images |-> <<ImageFor(1)>>]

PartialListings ==
    { [language |-> "en-US"],
      [language |-> "en-US", title |-> "App", fullDescription |-> "Full",
       shortDescription |-> "Short"],
      [language |-> "en-US", fullDescription |-> "Full",
       shortDescription |-> "Short", images |-> <<ImageFor(1)>>] }

SchemaMetadata ==
    { [json |-> "object",
       value |-> [listing |-> Single(l),
                  releaseNotes |-> Absent,
                  images |-> Some(<<ImageFor(1)>>),
                  countryTargeting |-> None]] : l \in {CompleteListing} \cup PartialListings }

InitSchema == InitOver({DefaultInputs}, ConfigListings, SchemaMetadata)

SpecSchema == InitSchema /\ [][Next]_vars

\* release directories named "build" and "main", holding a package and
\* expansion files named main, patch and data
ExpansionInputs == { DefaultInputs, [DefaultInputs EXCEPT !.releaseDirectory = "main"] }

AuxiliaryFiles ==
    { File("main", "obb"), File("patch", "obb"), File("data", "obb"), File("symbols", "zip") }

ExpansionListings ==
    { <<p>> \o s : p \in {File("app", "apk"), File("app", "aab")},
                   s \in Orderings(AuxiliaryFiles, MaxFiles - 1) }

InitExpansion == InitOver(ExpansionInputs, ExpansionListings, ClassifyMetadata)

SpecExpansion == InitExpansion /\ [][Next]_vars

\* directories with two expansion files or two symbol archives in both
\* orders, and metadata with two listings and two images
ExpansionPair == { File("main", "obb"), File("patch", "obb") }

SymbolPair == { File("symbols", "zip"), File("mapping", "zip") }

OrderListings ==
    { <<File("app", "apk")>> \o s : s \in Orderings(ExpansionPair, MaxFiles - 1) }
    \cup { <<File("app", "aab")>> \o s : s \in Orderings(SymbolPair, MaxFiles - 1) }

OrderMetadata ==
    { [json |-> "absent"],
      [json |-> "object",
       value |-> [listing |-> Array(<<ListingFor(2), ListingFor(1)>>),
                  releaseNotes |-> Absent,
                  images |-> Some(<<ImageFor(2), ImageFor(1)>>),
                  countryTargeting |-> None]] }

InitOrder == InitOver({DefaultInputs}, OrderListings, OrderMetadata)

SpecOrder == InitOrder /\ [][Next]_vars

\* runs in which every awaited call and tool run returns: main goes on with
\* its next step whenever it has one
SpecReturning == Init /\ [][Next]_vars /\ WF_vars(Next)

(* -------------------------- tool provisioning -------------------------- *)

\* invocations of getPackageInfoAab on one host, one after the other
MaxJobs == 2

\* version strings as their UTF-16 code units: "1.9.0", "1.15.6", "1.18.1"
Version190 == <<49, 46, 57, 46, 48>>

Version1156 == <<49, 46, 49, 53, 46, 54>>

Version1181 == <<49, 46, 49, 56, 46, 49>>

\* a sorts before b under Array.prototype.sort() without a comparator
LexLess(a, b) ==
    \E k \in 1..(Len(a) + 1) :
       /\ \A n \in 1..(k - 1) : n <= Len(b) /\ a[n] = b[n]
       /\ \/ k = Len(a) + 1 /\ Len(b) >= k
          \/ k <= Len(a) /\ k <= Len(b) /\ a[k] < b[k]

\* cachedTools.sort()[0]
FirstVersion(versions) ==
    CHOOSE v \in versions : \A o \in versions : o = v \/ LexLess(v, o)

\* line 580: cachedTools.sort().reverse()[0]
LatestVersion(versions) ==
    CHOOSE v \in versions : \A o \in versions : o = v \/ LexLess(o, v)

\* a bundletool on the PATH that is no shim of this program
SystemTool == [kind |-> "path", version |-> <<>>]

\* the shim tc.find returns for a cached version: it runs the jar of that
\* version under tempDir (line 627: -jar "${downloadPath}")
CachedTool(version) == [kind |-> "cache", version |-> version]

\* answers of repos.getLatestRelease: a release with a .jar asset, a release
\* without one, a status other than 200
UpstreamReleases ==
    { [status |-> "200", tag |-> Version1181, jar |-> TRUE],
      [status |-> "200", tag |-> Version1181, jar |-> FALSE],
      [status |-> "404", tag |-> <<>>, jar |-> FALSE] }

\* cache contents before the first invocation, written by earlier ones
InitialCaches ==
    { {},
      { [version |-> Version190, job |-> 0] },
      { [version |-> Version190, job |-> 0], [version |-> Version1156, job |-> 0] } }

\* the bundles inspected; the manifest of broken.aab has no version name
BundleFiles == { File("app", "aab"), File("broken", "aab") }

\* what `bundletool dump manifest` prints for the bundle at filePath
BundletoolOutput(filePath) ==
    IF filePath.stem = "broken" THEN SubSeq(ManifestOutput, 1, 2) ELSE ManifestOutput

InitTool ==
    /\ inputs = DefaultInputs
    /\ \E f \in BundleFiles : dirItems = <<f>>
    /\ javaPath \in {None, Some("java")}
    /\ toolPath \in {None, Some(SystemTool)}
    /\ cachedTools \in InitialCaches
    /\ tempDir \in { {}, { [jar |-> e.version, size |-> 1] : e \in cachedTools } }
    /\ job = 1
    /\ extractions = <<>>
    /\ invocations = <<>>
    /\ pc = "Which"
    /\ userFraction = None
    /\ inAppUpdatePriority = None
    /\ metadata = None
    /\ warnings = <<>>
    /\ releaseAssets = Glob(inputs.releaseDirectory, dirItems)
    /\ effects = <<>>
    /\ i = 1
    /\ apkInfo = None
    /\ aabInfo = None
    /\ expansionFiles = <<>>
    /\ symbolFiles = <<>>
    /\ versionCode = None
    /\ packageName = None
    /\ editId = None
    /\ calls = <<>>
    /\ errors = <<>>
    /\ failed = None
    /\ committed = FALSE

\* what the extraction leaves alone
publishVars ==
    <<inputs, dirItems, cfgVars, releaseAssets, i, apkInfo, aabInfo, expansionFiles,
      symbolFiles, editVars, calls, errors, committed, invocations>>

\* an error thrown out of getPackageInfoAab
ToolThrow(msg) ==
    /\ Throw(msg)
    /\ extractions' = Append(extractions, [info |-> None, error |-> msg])

\* lines 517-522: io.which('bundletool', true), setupBundleTool when it throws
WhichBundletool ==
    /\ pc = "Which"
    /\ pc' = IF toolPath # None THEN "Exec" ELSE "SetupBundleTool"
    /\ UNCHANGED <<publishVars, toolVars, effects, failed>>

\* SetupBundleTool without the cache lookup of lines 576-586
SetupBundleToolNoCache ==
    /\ pc = "SetupBundleTool"
    /\ IF javaPath = None
       THEN /\ ToolThrow("bundletool requires Java to be installed")
            /\ UNCHANGED <<toolPath, effects>>
       ELSE /\ pc' = "GetLatestRelease"
            /\ UNCHANGED <<toolPath, effects, failed, extractions>>
    /\ UNCHANGED <<publishVars, javaPath, cachedTools, tempDir, job>>

\* lines 568-586
SetupBundleTool ==
    /\ pc = "SetupBundleTool"
    /\ IF javaPath = None
       THEN /\ ToolThrow("bundletool requires Java to be installed")
            /\ UNCHANGED <<toolPath, effects>>
       ELSE IF cachedTools # {}
       THEN LET latestVersion == LatestVersion({ e.version : e \in cachedTools })
            IN  /\ toolPath' = Some(CachedTool(latestVersion))
                /\ effects' = Append(effects, <<"find", latestVersion>>)
                /\ pc' = "Exec"
                /\ UNCHANGED <<failed, extractions>>
       ELSE /\ pc' = "GetLatestRelease"
            /\ UNCHANGED <<toolPath, effects, failed, extractions>>
    /\ UNCHANGED <<publishVars, javaPath, cachedTools, tempDir, job>>

\* lines 588-603
GetLatestRelease ==
    /\ pc = "GetLatestRelease"
    /\ \E res \in {"ok", "throw"}, latestRelease \in UpstreamReleases :
          /\ effects' = Append(effects, <<"getLatestRelease", res, latestRelease>>)
          /\ IF res = "throw"
             THEN ToolThrow("repos.getLatestRelease rejected")
             ELSE IF latestRelease.status # "200"
             THEN ToolThrow("Failed to get latest bundletool release")
             ELSE IF ~latestRelease.jar
             THEN ToolThrow("Failed to find bundletool jar file in manifest release")
             ELSE /\ pc' = "DownloadTool"
                  /\ UNCHANGED <<failed, extractions>>
    /\ UNCHANGED <<publishVars, javaPath, toolPath, cachedTools, tempDir, job>>

\* the release the last getLatestRelease answered with
LatestRelease ==
    LET queries == SelectSeq(effects, LAMBDA e : e[1] = "getLatestRelease")
    IN  queries[Len(queries)][3]

\* DownloadTool without the test of line 622
DownloadToolNoSizeCheck ==
    /\ pc = "DownloadTool"
    /\ \E res \in {"ok", "throw"}, size \in {0, 1} :
          IF res = "throw"
          THEN /\ ToolThrow("tc.downloadTool rejected")
               /\ UNCHANGED <<tempDir, effects>>
          ELSE /\ tempDir' = { f \in tempDir : f.jar # LatestRelease.tag }
                                \cup { [jar |-> LatestRelease.tag, size |-> size] }
               /\ effects' = Append(effects, <<"download", LatestRelease.tag>>)
               /\ pc' = "CacheDir"
               /\ UNCHANGED <<failed, extractions>>
    /\ UNCHANGED <<publishVars, javaPath, toolPath, cachedTools, job>>

\* lines 605-636: the download into tempDir, the size test, the shim
DownloadTool ==
    /\ pc = "DownloadTool"
    /\ \E res \in {"ok", "throw"}, size \in {0, 1} :
          IF res = "throw"
          THEN /\ ToolThrow("tc.downloadTool rejected")
               /\ UNCHANGED <<tempDir, effects>>
          ELSE /\ tempDir' = { f \in tempDir : f.jar # LatestRelease.tag }
                                \cup { [jar |-> LatestRelease.tag, size |-> size] }
               /\ effects' = Append(effects, <<"download", LatestRelease.tag>>)
               /\ IF size = 0
                  THEN ToolThrow("Downloaded bundletool jar is empty")
                  ELSE /\ pc' = "CacheDir"
                       /\ UNCHANGED <<failed, extractions>>
    /\ UNCHANGED <<publishVars, javaPath, toolPath, cachedTools, job>>

\* lines 638-643: tc.cacheDir and core.addPath
CacheDir ==
    /\ pc = "CacheDir"
    /\ \E res \in {"ok", "throw"} :
          IF res = "throw"
          THEN /\ ToolThrow("tc.cacheDir rejected")
               /\ UNCHANGED <<cachedTools, toolPath, effects>>
          ELSE /\ cachedTools' = { e \in cachedTools : e.version # LatestRelease.tag }
                                    \cup { [version |-> LatestRelease.tag, job |-> job] }
               /\ toolPath' = Some(CachedTool(LatestRelease.tag))
               /\ effects' = Append(effects, <<"cacheDir", LatestRelease.tag>>)
               /\ pc' = "Exec"
               /\ UNCHANGED <<failed, extractions>>
    /\ UNCHANGED <<publishVars, javaPath, tempDir, job>>

\* the tool at toolPath starts: a shim needs the jar it names under tempDir
Runnable(tool) ==
    \/ tool.kind = "path"
    \/ \E f \in tempDir : f.jar = tool.version /\ f.size > 0

\* lines 530-565: the tool is run on the bundle and its output parsed
ExecBundletool ==
    /\ pc = "Exec"
    /\ LET filePath == releaseAssets[1]
           ran      == [located |-> TRUE,
                        exit    |-> IF Runnable(Val(toolPath)) THEN 0 ELSE 1,
                        output  |-> IF Runnable(Val(toolPath))
                                    THEN BundletoolOutput(filePath) ELSE <<>>]
           r        == getPackageInfoAab(filePath, ran)
       IN  /\ effects' = Append(effects, <<"inspect", filePath, ran>>)
           /\ extractions' = Append(extractions, r)
           /\ IF r.info = None
              THEN Throw(r.error)
              ELSE pc' = "done" /\ failed' = failed
    /\ UNCHANGED <<publishVars, javaPath, toolPath, cachedTools, tempDir, job>>

\* the next invocation on the host, in a later step of the same job or in a
\* later job: the tool cache is kept; a later job starts without the PATH
\* entry of core.addPath, and with RUNNER_TEMP emptied or (os.tmpdir()) kept
NextJob ==
    /\ pc = "done"
    /\ job < MaxJobs
    /\ job' = job + 1
    /\ pc' = "Which"
    /\ failed' = None
    /\ \E later \in {"step", "job"} :
          IF later = "step"
          THEN UNCHANGED <<toolPath, tempDir>>
          ELSE /\ toolPath' = IF toolPath = Some(SystemTool) THEN toolPath ELSE None
               /\ tempDir' \in {tempDir, {}}
    /\ UNCHANGED <<publishVars, javaPath, cachedTools, extractions, effects>>

NextTool ==
    \/ WhichBundletool
    \/ SetupBundleTool
    \/ GetLatestRelease
    \/ DownloadTool
    \/ CacheDir
    \/ ExecBundletool
    \/ NextJob

SpecTool == InitTool /\ [][NextTool]_vars

(* ------------------------ concurrent provisioning ------------------------ *)

\* two runs of setupBundleTool on one host, sharing the tool cache and the
\* temporary directory
Invocations == {"first", "second"}

\* the locals of setupBundleTool at its entry
EntryLocals ==
    [pc |-> "SetupBundleTool", cachedTools |-> None, latestRelease |-> None,
     toolPath |-> None, failed |-> None, log |-> <<>>]

InitConcurrent ==
    /\ inputs = DefaultInputs
    /\ dirItems = <<File("app", "aab")>>
    /\ javaPath \in {None, Some("java")}
    /\ toolPath = None
    /\ cachedTools \in { {}, { [version |-> Version190, job |-> 0] } }
    /\ tempDir = {}
    /\ job = 1
    /\ extractions = <<>>
    /\ invocations = [p \in Invocations |-> EntryLocals]
    /\ pc = "SetupBundleTool"
    /\ userFraction = None
    /\ inAppUpdatePriority = None
    /\ metadata = None
    /\ warnings = <<>>
    /\ releaseAssets = Glob(inputs.releaseDirectory, dirItems)
    /\ effects = <<>>
    /\ i = 1
    /\ apkInfo = None
    /\ aabInfo = None
    /\ expansionFiles = <<>>
    /\ symbolFiles = <<>>
    /\ versionCode = None
    /\ packageName = None
    /\ editId = None
    /\ calls = <<>>
    /\ errors = <<>>
    /\ failed = None
    /\ committed = FALSE

\* what a concurrent run of setupBundleTool leaves alone
sequentialVars ==
    <<inputs, dirItems, cfgVars, assetVars, editVars, i, calls, errors, committed,
      javaPath, toolPath, job, extractions, pc, failed>>

\* the locals of invocation p after a step
Step(p, locals) == invocations' = [invocations EXCEPT ![p] = locals]

\* an error thrown out of setupBundleTool in invocation p
ThrowIn(p, msg) ==
    Step(p, [invocations[p] EXCEPT !.pc = "done", !.failed = Some(msg)])

\* lines 568-586 in invocation p: the cache is read into the local cachedTools
SetupBundleToolIn(p) ==
    /\ invocations[p].pc = "SetupBundleTool"
    /\ IF javaPath = None
       THEN ThrowIn(p, "bundletool requires Java to be installed")
       ELSE LET found == { e.version : e \in cachedTools }
            IN  IF found # {}
                THEN Step(p, [invocations[p] EXCEPT
                                 !.cachedTools = Some(found),
                                 !.toolPath = Some(CachedTool(LatestVersion(found))),
                                 !.log = Append(@, "find"),
                                 !.pc = "done"])
                ELSE Step(p, [invocations[p] EXCEPT
                                 !.cachedTools = Some(found),
                                 !.pc = "GetLatestRelease"])
    /\ UNCHANGED <<sequentialVars, cachedTools, tempDir>>

\* lines 588-603 in invocation p
GetLatestReleaseIn(p) ==
    /\ invocations[p].pc = "GetLatestRelease"
    /\ \E res \in {"ok", "throw"}, latestRelease \in UpstreamReleases :
          LET queried == [invocations[p] EXCEPT !.log = Append(@, "getLatestRelease")]
          IN  IF res = "throw"
              THEN Step(p, [queried EXCEPT !.pc = "done",
                              !.failed = Some("repos.getLatestRelease rejected")])
              ELSE IF latestRelease.status # "200"
              THEN Step(p, [queried EXCEPT !.pc = "done",
                              !.failed = Some("Failed to get latest bundletool release")])
              ELSE IF ~latestRelease.jar
              THEN Step(p, [queried EXCEPT !.pc = "done",
                              !.failed = Some("Failed to find bundletool jar file in manifest release")])
              ELSE Step(p, [queried EXCEPT !.pc = "DownloadTool",
                              !.latestRelease = Some(latestRelease)])
    /\ UNCHANGED <<sequentialVars, cachedTools, tempDir>>

\* lines 605-636 in invocation p
DownloadToolIn(p) ==
    /\ invocations[p].pc = "DownloadTool"
    /\ \E res \in {"ok", "throw"}, size \in {0, 1} :
          LET tag == Val(invocations[p].latestRelease).tag
              downloaded == [invocations[p] EXCEPT !.log = Append(@, "download")]
          IN  IF res = "throw"
              THEN /\ ThrowIn(p, "tc.downloadTool rejected")
                   /\ UNCHANGED tempDir
              ELSE /\ tempDir' = { f \in tempDir : f.jar # tag }
                                    \cup { [jar |-> tag, size |-> size] }
                   /\ IF size = 0
                      THEN Step(p, [downloaded EXCEPT !.pc = "done",
                                      !.failed = Some("Downloaded bundletool jar is empty")])
                      ELSE Step(p, [downloaded EXCEPT !.pc = "CacheDir"])
    /\ UNCHANGED <<sequentialVars, cachedTools>>

\* CacheDirIn for a cache that admits one writer of a key: the invocation
\* waits while the key is present
CacheDirInExclusive(p) ==
    /\ invocations[p].pc = "CacheDir"
    /\ \A e \in cachedTools : e.version # Val(invocations[p].latestRelease).tag
    /\ \E res \in {"ok", "throw"} :
          LET tag == Val(invocations[p].latestRelease).tag
          IN  IF res = "throw"
              THEN /\ ThrowIn(p, "tc.cacheDir rejected")
                   /\ UNCHANGED cachedTools
              ELSE /\ cachedTools' = cachedTools \cup { [version |-> tag, job |-> job] }
                   /\ Step(p, [invocations[p] EXCEPT
                                  !.toolPath = Some(CachedTool(tag)),
                                  !.log = Append(@, "cacheDir"),
                                  !.pc = "done"])
    /\ UNCHANGED <<sequentialVars, tempDir>>

\* lines 638-643 in invocation p: the entry is written whatever the cache
\* holds by now
CacheDirIn(p) ==
    /\ invocations[p].pc = "CacheDir"
    /\ \E res \in {"ok", "throw"} :
          LET tag == Val(invocations[p].latestRelease).tag
          IN  IF res = "throw"
              THEN /\ ThrowIn(p, "tc.cacheDir rejected")
                   /\ UNCHANGED cachedTools
              ELSE /\ cachedTools' = { e \in cachedTools : e.version # tag }
                                        \cup { [version |-> tag, job |-> job] }
                   /\ Step(p, [invocations[p] EXCEPT
                                  !.toolPath = Some(CachedTool(tag)),
                                  !.log = Append(@, "cacheDir"),
                                  !.pc = "done"])
    /\ UNCHANGED <<sequentialVars, tempDir>>

\* one step of invocation p
StepOf(p) ==
    \/ SetupBundleToolIn(p)
    \/ GetLatestReleaseIn(p)
    \/ DownloadToolIn(p)
    \/ CacheDirIn(p)

NextConcurrent == \E p \in Invocations : StepOf(p)

SpecConcurrent == InitConcurrent /\ [][NextConcurrent]_vars

(* ------------------------------ claims --------------------------------- *)

CallIndices == 1..Len(calls)

PrimaryOps ==
    {"edits.insert", "edits.apks.upload", "edits.bundles.upload", "edits.tracks.list",
     "edits.tracks.get", "edits.tracks.update", "edits.validate", "edits.commit"}

UploadOps == {"edits.apks.upload", "edits.bundles.upload"}

AuxiliaryOps ==
    {"edits.expansionfiles.upload", "edits.deobfuscationfiles.upload",
     "edits.listings.update", "edits.images.upload"}

CommitSucceeded == \E k \in CallIndices : calls[k].op = "edits.commit" /\ calls[k].res = "ok"

\* C1: a commit call is issued only after a validate call of the same edit
\* returned success; after a failed validation no commit call is ever issued.
C1_CommitOnlyAfterValidate ==
    /\ \A k \in CallIndices :
          calls[k].op = "edits.commit" =>
             \E j \in 1..(k - 1) :
                /\ calls[j].op = "edits.validate"
                /\ calls[j].res = "ok"
                /\ calls[j].editId = calls[k].editId
                /\ calls[j].packageName = calls[k].packageName
    /\ \A k \in CallIndices :
          (calls[k].op = "edits.validate" /\ calls[k].res # "ok") =>
             \A j \in CallIndices : calls[j].op # "edits.commit"

\* a commit call was issued
C1_Witness == \E k \in CallIndices : calls[k].op = "edits.commit"

\* C2: a failed primary call (edit open, primary upload, track list/get/update,
\* validate, commit) is the last remote call of the run and leaves the run
\* failed and ended; once the run is marked failed no call is issued any more.
C2_NothingAfterFatalError ==
    /\ [](/\ \A k \in CallIndices :
               (calls[k].op \in PrimaryOps /\ calls[k].res # "ok") =>
                  /\ k = Len(calls)
                  /\ failed # None
                  /\ pc = "done"
                  /\ ~committed
          /\ \A k \in CallIndices : calls[k].op \in PrimaryOps \cup AuxiliaryOps
          /\ failed # None => pc = "done" /\ ~CommitSucceeded)
    /\ [][failed # None => UNCHANGED <<calls, failed, committed, pc>>]_vars

\* the track update was rejected after the uploads went through
C2_Witness ==
    /\ failed # None
    /\ Len(calls) >= 5
    /\ calls[Len(calls)].op = "edits.tracks.update"
    /\ calls[Len(calls)].res # "ok"

\* requests of kind op that carry the item, by the field the kind names it with
Attempts(op, field, item) ==
    { k \in CallIndices : calls[k].op = op /\ calls[k].arg[field] = item }

PrimaryStepsSucceeded ==
    /\ \E k \in CallIndices : calls[k].op = "edits.insert"
    /\ \A k \in CallIndices : calls[k].op \in PrimaryOps => calls[k].res = "ok"
    /\ \A k \in CallIndices :
          calls[k].op \in UploadOps => calls[k].data # None /\ calls[k].data # Some(0)
    /\ \A k \in CallIndices :
          calls[k].op = "edits.tracks.list" =>
             /\ calls[k].data # None
             /\ \E t \in 1..Len(Val(calls[k].data)) : Val(calls[k].data)[t] = Track

\* C3: an auxiliary call, whatever its outcome, never ends or fails the run;
\* when the track stage is reached every symbol file and (for an APK) every
\* tagged expansion file has been sent once, when validation is reached every
\* listing has been sent once and every image sent or logged; and a run that
\* ends with every primary step successful is committed and not failed.
C3_AuxiliaryFailuresNotFatal ==
    /\ (Len(calls) > 0 /\ calls[Len(calls)].op \in AuxiliaryOps) =>
          failed = None /\ pc # "done"
    /\ (\E k \in CallIndices : calls[k].op = "edits.tracks.list") =>
          /\ \A n \in 1..Len(symbolFiles) :
                Cardinality(Attempts("edits.deobfuscationfiles.upload", "file",
                                     symbolFiles[n])) = 1
          /\ apkInfo # None =>
                \A n \in 1..Len(expansionFiles) :
                   ExpansionFileType(expansionFiles[n]) # None =>
                      Cardinality(Attempts("edits.expansionfiles.upload", "file",
                                           expansionFiles[n])) = 1
    /\ (\E k \in CallIndices : calls[k].op = "edits.validate") =>
          /\ \A n \in 1..Len(ListingsToUpdate) :
                Cardinality(Attempts("edits.listings.update", "requestBody",
                                     ListingsToUpdate[n])) = 1
          /\ \A n \in 1..Len(ImagesToUpload) :
                \/ Cardinality(Attempts("edits.images.upload", "language",
                                        ImagesToUpload[n].language)) = 1
                \/ \E e \in 1..Len(errors) :
                      errors[e] = <<"edits.images.upload", ImagesToUpload[n]>>
    /\ (pc = "done" /\ PrimaryStepsSucceeded) => committed /\ failed = None

\* a committed run in which a symbol upload and a later listing update failed
C3_Witness ==
    /\ committed
    /\ failed = None
    /\ \E e, f \in 1..Len(errors) :
          /\ e < f
          /\ errors[e][1] = "edits.deobfuscationfiles.upload"
          /\ errors[f][1] = "edits.listings.update"
          /\ f < Len(errors)

DigitValue(c) == CHOOSE d \in 0..9 : Digit(d) = c

\* the number a sequence of decimal digits denotes
RECURSIVE DecimalValue(_)
DecimalValue(ds) ==
    IF Len(ds) = 0 THEN 0
    ELSE 10 * DecimalValue(SubSeq(ds, 1, Len(ds) - 1)) + DigitValue(ds[Len(ds)])

\* C4: in a committed run there is a track update, and every release a track
\* update submitted has exactly one version code, the decimal form of the
\* version code the primary upload of the run returned.
C4_ReleaseCarriesUploadedVersionCode ==
    committed =>
       /\ \E k \in CallIndices : calls[k].op = "edits.tracks.update"
       /\ Cardinality({ k \in CallIndices : calls[k].op \in UploadOps }) = 1
       /\ \A k, u \in CallIndices :
             (calls[k].op = "edits.tracks.update" /\ calls[u].op \in UploadOps) =>
                /\ u < k
                /\ Len(calls[k].arg.releases) >= 1
                /\ \A r \in 1..Len(calls[k].arg.releases) :
                      LET codes == calls[k].arg.releases[r].versionCodes
                      IN  /\ Len(codes) = 1
                          /\ Len(codes[1]) >= 1
                          /\ DecimalValue(codes[1]) = Val(calls[u].data)

\* a committed run whose upload returned a version code that differs from the
\* one in the package manifest
C4_Witness ==
    /\ committed
    /\ \E u \in CallIndices :
          /\ calls[u].op \in UploadOps
          /\ calls[u].data = Some(12)
    /\ (apkInfo # None => Val(apkInfo).versionCode = <<"7">>)
    /\ (aabInfo # None => Val(aabInfo).versionCode = <<"7">>)

TrackReadOps == {"edits.tracks.list", "edits.tracks.get"}

AfterTrackOps ==
    {"edits.listings.update", "edits.images.upload", "edits.validate", "edits.commit"}

\* C5: after a rejected track update, or a failed track list or track get, no
\* listing update, image upload, validate or commit call is issued.
C5_NothingAfterTrackFailure ==
    \A k \in CallIndices :
       (calls[k].op \in TrackReadOps \cup {"edits.tracks.update"} /\ calls[k].res # "ok") =>
          /\ \A j \in (k + 1)..Len(calls) : calls[j].op \notin AfterTrackOps
          /\ ~committed

\* the run ended on a failed track get, with metadata to publish
C5_Witness ==
    /\ pc = "done"
    /\ Len(calls) > 0
    /\ calls[Len(calls)].op = "edits.tracks.get"
    /\ calls[Len(calls)].res # "ok"
    /\ Len(ListingsToUpdate) > 0

\* the requested track is not in the answer of a track list call
TrackMissingFrom(data) ==
    data = None \/ \A t \in 1..Len(Val(data)) : Val(data)[t] # Track

\* C6: when the track list call succeeds and the requested track is not among
\* the listed tracks, the run fails with the unknown-track error and the list
\* call is its last remote call (no track get, update, validate or commit).
C6_UnknownTrackFails ==
    \A k \in CallIndices :
       (calls[k].op = "edits.tracks.list" /\ calls[k].res = "ok"
          /\ TrackMissingFrom(calls[k].data)) =>
          /\ failed = Some("Track does not exist")
          /\ pc = "done"
          /\ k = Len(calls)

\* the service listed tracks, none of them the requested one
C6_Witness ==
    /\ Len(calls) > 0
    /\ calls[Len(calls)].op = "edits.tracks.list"
    /\ calls[Len(calls)].data = Some(<<"alpha", "beta">>)
    /\ Track = "internal"
    /\ failed # None

\* C7: when the primary upload fails, or succeeds with no version code in its
\* response, the run is failed and ended and the upload is its last remote call.
C7_PrimaryUploadFailureIsFatal ==
    \A k \in CallIndices :
       (calls[k].op \in UploadOps /\ (calls[k].res # "ok" \/ calls[k].data = None)) =>
          /\ failed # None
          /\ pc = "done"
          /\ k = Len(calls)
          /\ ~committed

\* an upload that succeeded without a version code, with auxiliary files waiting
C7_Witness ==
    /\ Len(calls) > 0
    /\ calls[Len(calls)].op \in UploadOps
    /\ calls[Len(calls)].res = "ok"
    /\ calls[Len(calls)].data = None
    /\ Len(symbolFiles) > 0
    /\ failed # None

PrimaryPackageName ==
    IF apkInfo # None THEN Val(apkInfo).packageName ELSE Val(aabInfo).packageName

\* C8: at most one edit insert call is issued; it is the first remote call,
\* and every other call carries the id that insert returned and, like the
\* insert, the package name extracted from the primary artifact.
C8_OneEditSession ==
    /\ Cardinality({ k \in CallIndices : calls[k].op = "edits.insert" }) <= 1
    /\ \A k \in CallIndices :
          /\ calls[k].packageName = PrimaryPackageName
          /\ (k = 1) <=> (calls[k].op = "edits.insert")
          /\ k > 1 => (calls[1].res = "ok" /\ calls[k].editId = calls[1].data)

\* a committed run with auxiliary calls of every kind, inside the edit
C8_Witness ==
    /\ committed
    /\ editId = Some("edit-1")
    /\ \A op \in {"edits.deobfuscationfiles.upload", "edits.listings.update",
                  "edits.images.upload"} :
          \E k \in CallIndices : calls[k].op = op /\ calls[k].editId = Some("edit-1")

\* C9: a run that has ended is marked failed exactly when its commit did not
\* succeed; a failure mark comes from the configuration or classification
\* stage or from a primary call, never from an auxiliary one; and a run whose
\* commit succeeded is never marked failed.
C9_FailedIffNotCommitted ==
    /\ pc = "done" => ((failed # None) <=> ~CommitSucceeded)
    /\ committed <=> CommitSucceeded
    /\ CommitSucceeded => (failed = None /\ pc = "done")
    /\ failed # None =>
          /\ pc = "done"
          /\ Len(calls) > 0 => calls[Len(calls)].op \in PrimaryOps

\* a committed run in which auxiliary uploads failed
C9_Witness ==
    /\ CommitSucceeded
    /\ failed = None
    /\ Len(errors) >= 2

HasApkAndAab ==
    /\ \E n \in 1..Len(dirItems) : dirItems[n].ext = "apk"
    /\ \E n \in 1..Len(dirItems) : dirItems[n].ext = "aab"

\* C10: a run over a directory holding both an .apk and an .aab (in either
\* order, with a valid configuration) ends failed with the conflicting
\* artifacts error and without any remote call.
C10_ConflictingArtifactsReported ==
    (pc = "done" /\ ConfigError = None /\ HasApkAndAab) =>
       /\ failed = Some("Cannot upload both APK and AAB files in the same release")
       /\ calls = <<>>

(* ---------------------------- classification --------------------------- *)

\* number of directory entries with the suffix ext
CountExt(ext) == Cardinality({ n \in 1..Len(dirItems) : dirItems[n].ext = ext })

ConflictingArtifactsErrors ==
    { "Multiple APK files found in release assets",
      "Multiple AAB files found in release assets",
      "Cannot upload both APK and AAB files in the same release" }

\* C11: a run over a directory holding more than one .apk or more than one
\* .aab (with a valid configuration) ends failed with a conflicting artifacts
\* error and without opening an edit.
C11_DuplicateArtifactsReported ==
    (pc = "done" /\ ConfigError = None /\ (CountExt("apk") > 1 \/ CountExt("aab") > 1)) =>
       /\ failed # None
       /\ Val(failed) \in ConflictingArtifactsErrors
       /\ calls = <<>>

\* the classification loop of lines 130-142 is over (or the run has ended)
ClassificationOver == pc \notin {"ReadInputs", "ReadDirectory", "ClassifyAsset"}

\* every inspection tool that ran was found, exited with 0 and printed the
\* package name, the version code and the version name
InspectionsPrintedAll ==
    \A n \in 1..Len(effects) :
       effects[n][1] = "inspect" =>
          /\ effects[n][3].located
          /\ effects[n][3].exit = 0
          /\ effects[n][3].output \in {ManifestOutput, BadgingOutput}

\* the directory entries with the suffix ext, in directory order
EntriesWith(ext) == SelectSeq(dirItems, LAMBDA f : f.ext = ext)

SameFiles(paths, entries) ==
    /\ Len(paths) = Len(entries)
    /\ \A n \in 1..Len(paths) : paths[n].stem = entries[n].stem /\ paths[n].ext = entries[n].ext

\* C12: over a directory with exactly one .apk and no .aab (valid
\* configuration, the inspection tool printing all three attributes), once
\* the classification is over the primary package is that of the .apk and is
\* non-empty, the .obb files are the expansion files and the .zip files the
\* symbol files.
C12_SingleApkClassified ==
    (/\ ClassificationOver
     /\ ConfigError = None
     /\ CountExt("apk") = 1
     /\ CountExt("aab") = 0
     /\ InspectionsPrintedAll) =>
       /\ apkInfo # None
       /\ aabInfo = None
       /\ Val(apkInfo).packageName # <<>>
       /\ Val(apkInfo).filePath.ext = "apk"
       /\ SameFiles(expansionFiles, EntriesWith("obb"))
       /\ SameFiles(symbolFiles, EntriesWith("zip"))

InspectionsRun == { n \in 1..Len(effects) : effects[n][1] = "inspect" }

\* C13: with a valid configuration and a release directory without entries,
\* the run goes from reading the directory straight to failure with the
\* directory-empty error: no remote call is issued and no inspection tool is
\* looked up, fetched or run.
C13_EmptyDirectoryFails ==
    (Len(dirItems) = 0 /\ ConfigError = None) =>
       /\ pc \in {"ReadInputs", "ReadDirectory", "done"}
       /\ pc = "done" => failed = Some("Release directory is empty")
       /\ calls = <<>>
       /\ InspectionsRun = {}

C13_Witness ==
    /\ pc = "done"
    /\ Len(dirItems) = 0
    /\ effects = << <<"readdir", inputs.releaseDirectory>> >>
    /\ failed = Some("Release directory is empty")
    /\ calls = <<>>

\* the two failures of a directory without a package: nothing the glob
\* matches (line 119), or matches without an .apk or .aab (line 150)
NoPrimaryArtifactErrors ==
    { "No release assets found in directory",
      "Failed to determine package name from release assets" }

\* C14: with a valid configuration, a release directory that has entries but
\* no .apk and no .aab ends the run failed for want of a primary artifact:
\* before the edit is opened, with the no-package message when .obb or .zip
\* files are present and the no-assets message when the glob matches nothing.
C14_NoPrimaryArtifactFails ==
    (Len(dirItems) > 0 /\ CountExt("apk") = 0 /\ CountExt("aab") = 0 /\ ConfigError = None) =>
       /\ calls = <<>>
       /\ editId = None
       /\ pc \notin {"ReadInputs", "ReadDirectory", "ClassifyAsset", "InsertEdit"} =>
             /\ pc = "done"
             /\ failed # None
             /\ Val(failed) \in NoPrimaryArtifactErrors
             /\ Val(failed) = "Failed to determine package name from release assets"
                   <=> CountExt("obb") + CountExt("zip") > 0

C14_Witness ==
    /\ pc = "done"
    /\ CountExt("obb") > 0
    /\ CountExt("zip") > 0
    /\ CountExt("apk") = 0
    /\ CountExt("aab") = 0
    /\ failed = Some("Failed to determine package name from release assets")
    /\ Len(expansionFiles) > 0
    /\ Len(symbolFiles) > 0
    /\ calls = <<>>

(* ---------------------------- configuration ---------------------------- *)

MissingToken == inputs.githubToken \in {"", " "}

MissingCredentials == inputs.credentialsPath = "" /\ inputs.envCredentials = ""

StatusOutsideSet ==
    inputs.status # "" /\ inputs.status \notin {"draft", "inProgress", "completed", "halted"}

\* supplied and not a number, or outside 0..1 (in hundredths)
UserFractionOutsideRange ==
    /\ inputs.userFraction # ""
    /\ \/ ParseFloat(inputs.userFraction) = None
       \/ Val(ParseFloat(inputs.userFraction)) \notin 0..100

PriorityOutsideRange ==
    /\ inputs.inAppUpdatePriority # ""
    /\ \/ ParseInt(inputs.inAppUpdatePriority) = None
       \/ Val(ParseInt(inputs.inAppUpdatePriority)) \notin 0..5

ConfigurationError ==
    \/ MissingToken
    \/ MissingCredentials
    \/ inputs.releaseDirectory = ""
    \/ StatusOutsideSet
    \/ UserFractionOutsideRange
    \/ PriorityOutsideRange
    \/ inputs.metadata.json = "invalid"

\* C15: a run whose inputs hold a configuration error (token or credentials
\* missing, release directory missing, status outside the four values,
\* user-fraction not a number in 0..1, priority not an integer in 0..5,
\* metadata not JSON) never gets past the reading of the inputs: it ends
\* failed with no remote call, no inspection tool run, no directory read.
C15_ConfigurationErrorsFirst ==
    ConfigurationError =>
       /\ pc \in {"ReadInputs", "done"}
       /\ pc = "done" => failed # None
       /\ calls = <<>>
       /\ effects = <<>>
       /\ releaseAssets = <<>>

C15_Witness ==
    /\ pc = "done"
    /\ PriorityOutsideRange
    /\ ~MissingToken /\ ~MissingCredentials /\ ~StatusOutsideSet /\ ~UserFractionOutsideRange
    /\ failed = Some("Invalid inAppUpdatePriority value")
    /\ calls = <<>>
    /\ effects = <<>>

\* the status the release is submitted with is neither inProgress nor halted
StatusNotStaged ==
    (IF inputs.status = "" THEN "completed" ELSE inputs.status) \notin {"inProgress", "halted"}

\* the inputs other than user-fraction are valid
OtherInputsValid ==
    /\ ~MissingToken
    /\ ~MissingCredentials
    /\ inputs.releaseDirectory # ""
    /\ ~StatusOutsideSet
    /\ ~PriorityOutsideRange
    /\ inputs.metadata.json # "invalid"

TrackUpdates == { k \in CallIndices : calls[k].op = "edits.tracks.update" }

UserFractionWarned ==
    \E n \in 1..Len(warnings) : warnings[n] = "user-fraction ignored"

\* C16 as stated: whenever a user-fraction is supplied and the status is not
\* inProgress or halted, once the inputs are read a warning is recorded, the
\* run has not failed because of the user-fraction, and no track update
\* carries a userFraction.
C16_AnyFractionIgnored ==
    (pc # "ReadInputs" /\ inputs.userFraction # "" /\ StatusNotStaged /\ OtherInputsValid) =>
       /\ UserFractionWarned
       /\ failed # Some("Invalid user-fraction value")
       /\ \A k \in TrackUpdates : calls[k].arg.releases[1].userFraction = None

\* C16 amended: a supplied user-fraction that passes the validation of line
\* 64, with a status that is not inProgress or halted, is ignored: a warning
\* is recorded and no track update carries a userFraction; one that does not
\* pass fails the run whatever the status. In every track update a present
\* userFraction comes with the status inProgress or halted.
C16_ValidFractionIgnored ==
    /\ (/\ pc # "ReadInputs"
        /\ inputs.userFraction # ""
        /\ StatusNotStaged
        /\ OtherInputsValid
        /\ failed # Some("Invalid user-fraction value")) =>
          /\ UserFractionWarned
          /\ userFraction = None
          /\ \A k \in TrackUpdates : calls[k].arg.releases[1].userFraction = None
    /\ (pc # "ReadInputs" /\ OtherInputsValid /\ UserFractionOutsideRange) =>
          /\ failed = Some("Invalid user-fraction value")
          /\ ~UserFractionWarned
          /\ calls = <<>>
    /\ \A k \in TrackUpdates :
          \A n \in 1..Len(calls[k].arg.releases) :
             calls[k].arg.releases[n].userFraction # None =>
                calls[k].arg.releases[n].status \in {"inProgress", "halted"}

C16_Witness ==
    /\ inputs.userFraction = "0.5"
    /\ inputs.status = "completed"
    /\ UserFractionWarned
    /\ failed = None
    /\ \E k \in TrackUpdates :
          /\ calls[k].arg.releases[1].status = "completed"
          /\ calls[k].arg.releases[1].userFraction = None

\* C17: once the inputs are read, a supplied user-fraction that was not
\* rejected as a configuration error is a number strictly between 0 and 1
\* (hundredths: strictly between 0 and 100).
C17_OnlyOpenIntervalAccepted ==
    (/\ pc # "ReadInputs"
     /\ inputs.userFraction # ""
     /\ OtherInputsValid
     /\ failed # Some("Invalid user-fraction value")) =>
       /\ ParseFloat(inputs.userFraction) # None
       /\ Val(ParseFloat(inputs.userFraction)) > 0
       /\ Val(ParseFloat(inputs.userFraction)) < 100

(* ------------------------------- release ------------------------------- *)

\* the PackageInfo of the package that was uploaded
PrimaryPackageInfo == IF apkInfo # None THEN Val(apkInfo) ELSE Val(aabInfo)

\* C18: every release submitted in a track update is named by the
\* release-name input, unchanged, when that input is supplied, and otherwise
\* by the version code of the primary package, a space, and its version name
\* in parentheses.
C18_ReleaseName ==
    \A k \in TrackUpdates :
       \A n \in 1..Len(calls[k].arg.releases) :
          calls[k].arg.releases[n].name =
             IF inputs.releaseName # <<>>
             THEN inputs.releaseName
             ELSE PrimaryPackageInfo.versionCode \o <<" (">>
                     \o PrimaryPackageInfo.versionName \o <<")">>

C18_Witness ==
    /\ \E k \in TrackUpdates :
          /\ calls[k].res = "ok"
          /\ inputs.releaseName = <<>>
          /\ calls[k].arg.releases[1].name = <<"7", " (", "1.0", ")">>
    /\ PrimaryPackageInfo.versionCode = <<"7">>
    /\ PrimaryPackageInfo.versionName = <<"1.0">>
    /\ committed

\* the releases of list that carry the version code the upload returned
CarryingUploadedCode(list) ==
    { n \in 1..Len(list) :
         \E m \in 1..Len(list[n].versionCodes) :
            DecimalValue(list[n].versionCodes[m]) = Val(versionCode) }

\* C19: the release list of every track update holds the incoming release,
\* the one carrying the version code the upload returned and the status of
\* the run, exactly once, whether the track already held no release or
\* several releases with that version code.
C19_IncomingReleaseOnce ==
    \A k \in TrackUpdates :
       /\ Cardinality(CarryingUploadedCode(calls[k].arg.releases)) = 1
       /\ \A n \in CarryingUploadedCode(calls[k].arg.releases) :
             calls[k].arg.releases[n].status =
                (IF inputs.status = "" THEN "completed" ELSE inputs.status)

C19_Witness ==
    \E k \in TrackUpdates, g \in CallIndices :
       /\ g < k
       /\ calls[g].op = "edits.tracks.get"
       /\ calls[g].res = "ok"
       /\ Cardinality(CarryingUploadedCode(calls[g].data)) = 2
       /\ Cardinality(CarryingUploadedCode(calls[k].arg.releases)) = 1
       /\ calls[k].res = "ok"

(* ------------------------------ metadata ------------------------------- *)

\* list holds what x supplies: the one object of a single value, the
\* elements of an array in their order, nothing when x is absent
HoldsSupplied(list, x) ==
    /\ x.shape = "single" => Len(list) = 1 /\ list[1] = x.value
    /\ x.shape = "array"  => list = x.items
    /\ x.shape = "absent" => list = <<>>

\* list holds the first entries of what x supplies, in order
HoldsSuppliedPrefix(list, x) ==
    /\ x.shape = "single" => Len(list) <= 1 /\ \A n \in 1..Len(list) : list[n] = x.value
    /\ x.shape = "array"  => Len(list) <= Len(x.items) /\ list = SubSeq(x.items, 1, Len(list))
    /\ x.shape = "absent" => list = <<>>

\* the request bodies of the listing updates issued so far, in call order
ListingBodies ==
    LET updates == SelectSeq(calls, LAMBDA c : c.op = "edits.listings.update")
    IN  [k \in 1..Len(updates) |-> updates[k].arg.requestBody]

ListingsDone == pc \in {"UploadImage", "Validate", "Commit"} \/ committed

\* C20: with a metadata object supplied, the listing updates issued are, in
\* order, the listings supplied (the one object of a single value, the
\* elements of an array): a prefix of them while the loop runs, all of them
\* once it is over, each under its own language; and the release notes of a
\* submitted release are the entries supplied, undefined when none is.
C20_ShapeNormalisedOnly ==
    inputs.metadata.json = "object" =>
       LET md == inputs.metadata.value
       IN  /\ HoldsSuppliedPrefix(ListingBodies, md.listing)
           /\ ListingsDone => HoldsSupplied(ListingBodies, md.listing)
           /\ \A k \in CallIndices :
                 calls[k].op = "edits.listings.update" =>
                    calls[k].arg.language = calls[k].arg.requestBody.language
           /\ \A k \in TrackUpdates :
                 LET notes == calls[k].arg.releases[1].releaseNotes
                 IN  IF md.releaseNotes.shape = "absent"
                     THEN notes = None
                     ELSE notes # None /\ HoldsSupplied(Val(notes), md.releaseNotes)

C20_Witness ==
    /\ committed
    /\ inputs.metadata.json = "object"
    /\ inputs.metadata.value.listing.shape = "array"
    /\ Len(ListingBodies) = MaxListings
    /\ ListingBodies = inputs.metadata.value.listing.items
    /\ \E k \in TrackUpdates :
          calls[k].arg.releases[1].releaseNotes = Some(inputs.metadata.value.releaseNotes.items)

\* the fields the Listing interface requires besides the language
RequiredListingFields == {"title", "fullDescription", "shortDescription", "images"}

SuppliedListingIncomplete ==
    /\ inputs.metadata.json = "object"
    /\ inputs.metadata.value.listing.shape = "single"
    /\ ~(RequiredListingFields \subseteq DOMAIN inputs.metadata.value.listing.value)

\* C21: a listing that omits a required field is never the body of a listing
\* update, and a run whose metadata holds such a listing ends failed.
C21_IncompleteListingRejected ==
    /\ \A k \in CallIndices :
          calls[k].op = "edits.listings.update" =>
             RequiredListingFields \subseteq DOMAIN calls[k].arg.requestBody
    /\ (pc = "done" /\ SuppliedListingIncomplete) => failed # None

(* ----------------------------- edit session ---------------------------- *)

\* the edit-open call k answered ok and with an edit id
OpenedEdit(k) ==
    /\ calls[k].op = "edits.insert"
    /\ calls[k].res = "ok"
    /\ calls[k].data # None

\* C22: every remote call other than the edit-open call comes after an
\* edit-open call that answered ok with an edit id, and a run whose edit-open
\* call did not (rejected, not ok, or ok without an id) has ended failed with
\* no further call.
C22_NoCallWithoutEditId ==
    /\ \A k \in CallIndices :
          calls[k].op # "edits.insert" => \E j \in 1..(k - 1) : OpenedEdit(j)
    /\ \A k \in CallIndices :
          (calls[k].op = "edits.insert" /\ ~OpenedEdit(k)) =>
             /\ pc = "done"
             /\ failed # None
             /\ Len(calls) = k

\* the stage of a remote call, in the order of main
StageRank(op) ==
    CASE op = "edits.insert"                                         -> 1
      [] op \in {"edits.apks.upload", "edits.bundles.upload"}        -> 2
      [] op = "edits.expansionfiles.upload"                          -> 3
      [] op = "edits.deobfuscationfiles.upload"                      -> 4
      [] op \in {"edits.tracks.list", "edits.tracks.get"}            -> 5
      [] op = "edits.tracks.update"                                  -> 6
      [] op = "edits.listings.update"                                -> 7
      [] op = "edits.images.upload"                                  -> 8
      [] op = "edits.validate"                                       -> 9
      [] op = "edits.commit"                                         -> 10

\* stages of one call; the others are loops over files, listings or images
SingleCallOps ==
    { "edits.insert", "edits.apks.upload", "edits.bundles.upload", "edits.tracks.list",
      "edits.tracks.get", "edits.tracks.update", "edits.validate", "edits.commit" }

\* C23: the remote calls of a run are in stage order (edit open, primary
\* upload, expansion files, symbol files, track read, track update, listings,
\* images, validate, commit): a later call is never of an earlier stage, the
\* track is listed before it is read, and a stage of one call is not entered
\* a second time. Stated on each call and the one before it: stages that
\* never decrease from one call to the next never decrease along the run.
C23_StagesInOrder ==
    \A k \in CallIndices :
       k > 1 =>
          LET before == calls[k - 1].op
              this   == calls[k].op
          IN  /\ StageRank(before) <= StageRank(this)
              /\ this \in SingleCallOps => before # this
              /\ this = "edits.tracks.list" => before # "edits.tracks.get"
              /\ StageRank(this) = 2 => StageRank(before) < 2

\* a committed run that went through every stage
C23_Witness ==
    /\ committed
    /\ \A r \in 1..10 : \E k \in CallIndices : StageRank(calls[k].op) = r

(* --------------------------- expansion files --------------------------- *)

ExpansionUploads == { k \in CallIndices : calls[k].op = "edits.expansionfiles.upload" }

\* C24: an expansion-file upload is issued only in a run whose primary
\* artifact is an APK, after the upload of that APK succeeded; a run whose
\* primary artifact is a bundle issues none, whatever .obb files were found.
C24_ExpansionFilesOnlyWithApk ==
    /\ \A k \in ExpansionUploads :
          /\ apkInfo # None
          /\ aabInfo = None
          /\ \E j \in 1..(k - 1) : calls[j].op = "edits.apks.upload" /\ calls[j].res = "ok"
    /\ (\E j \in CallIndices : calls[j].op = "edits.bundles.upload") => ExpansionUploads = {}

\* a committed bundle run over a directory with an .obb file
C24_Witness ==
    /\ committed
    /\ aabInfo # None
    /\ Len(expansionFiles) > 0
    /\ \E j \in CallIndices : calls[j].op = "edits.bundles.upload" /\ calls[j].res = "ok"
    /\ ExpansionUploads = {}

\* the tag the name of an expansion file alone gives: main, patch, or None
TagOfName(stem) ==
    IF stem = "main" THEN Some("main")
    ELSE IF stem = "patch" THEN Some("patch")
    ELSE None

\* C25: every expansion-file upload carries the tag the name of the file
\* gives (main for a name with "main", else patch for a name with "patch"),
\* whatever directory the file is in, and a file whose name gives no tag is
\* not uploaded.
C25_TaggedByFileName ==
    \A k \in ExpansionUploads :
       /\ TagOfName(calls[k].arg.file.stem) # None
       /\ calls[k].arg.expansionFileType = Val(TagOfName(calls[k].arg.file.stem))

(* ------------------------- metadata extraction ------------------------- *)

\* the output names a non-empty value under one of the keys
HasField(output, keys) ==
    \E n \in 1..Len(output) : output[n].key \in keys /\ output[n].value # <<>>

\* package identifier, version code and version name are all in the output
HasAllFields(output) ==
    /\ HasField(output, {"package", "package: name"})
    /\ HasField(output, {"versionCode", "android:versionCode"})
    /\ HasField(output, {"versionName", "android:versionName"})

\* the inspections of the file at path
InspectionsOf(path) ==
    { n \in InspectionsRun : effects[n][2] = path }

\* C26: a PackageInfo exists only for a file whose inspection found the
\* tool, exited with 0 and printed all three fields; an inspection that
\* exited non-zero or printed fewer than the three fields ends the run
\* failed, with no PackageInfo for that file and no remote call.
C26_ExtractionNeedsAllFields ==
    /\ \A info \in {apkInfo, aabInfo} :
          info # None =>
             \E n \in InspectionsOf(Val(info).filePath) :
                /\ effects[n][3].located
                /\ effects[n][3].exit = 0
                /\ HasAllFields(effects[n][3].output)
    /\ \A n \in InspectionsRun :
          (effects[n][3].exit # 0 \/ ~HasAllFields(effects[n][3].output)) =>
             /\ pc = "done"
             /\ failed # None
             /\ n = Len(effects)
             /\ \A info \in {apkInfo, aabInfo} :
                   info # None => Val(info).filePath # effects[n][2]
             /\ calls = <<>>

\* a run ended by an inspection that exited with 0 and printed the package
\* name and the version code but no version name
C26_Witness ==
    /\ pc = "done"
    /\ calls = <<>>
    /\ failed = Some("Package name not found in the manifest of the release asset")
    /\ \E n \in InspectionsRun :
          /\ effects[n][3].exit = 0
          /\ effects[n][3].located
          /\ HasField(effects[n][3].output, {"package"})
          /\ ~HasField(effects[n][3].output, {"versionName", "android:versionName"})

\* the PackageInfo main holds for the file at path, or None
InfoOf(path) == IF path.ext = "apk" THEN apkInfo ELSE aabInfo

\* C27: an inspection that found the tool, exited with 0 and printed the
\* three fields in the badging form (package: name='P' versionCode='C'
\* versionName='N') or in the manifest form (package="P"
\* android:versionCode="C" android:versionName="N") yields the PackageInfo
\* with package name P, version name N and version code C.
C27_BothFormatsExtracted ==
    \A n \in InspectionsRun :
       (/\ effects[n][3].located
        /\ effects[n][3].exit = 0
        /\ effects[n][3].output \in {BadgingOutput, ManifestOutput}) =>
          /\ InfoOf(effects[n][2]) # None
          /\ Val(InfoOf(effects[n][2])).packageName = <<"com.example.app">>
          /\ Val(InfoOf(effects[n][2])).versionName = <<"1.0">>
          /\ Val(InfoOf(effects[n][2])).versionCode = <<"7">>

\* C28: extraction is idempotent: a later extraction of the same unchanged
\* file yields the PackageInfo an earlier one yielded, also when the earlier
\* one provisioned the tool and the later one found it in the cache
C28_ExtractionIdempotent ==
    \A a, b \in DOMAIN extractions :
       (a < b /\ extractions[a].info # None) => extractions[b].info = extractions[a].info

\* the step of setupBundleTool selects the greatest cached version string,
\* makes it the resolved tool and goes on to run it, with no other effect
SelectsGreatestCached ==
    /\ \E e \in cachedTools :
          /\ \A o \in cachedTools : ~LexLess(e.version, o.version)
          /\ toolPath' = Some([kind |-> "cache", version |-> e.version])
    /\ pc' = "Exec"
    /\ failed' = None
    /\ \A n \in DOMAIN effects' :
          n > Len(effects) => effects'[n][1] \notin {"getLatestRelease", "download", "cacheDir"}
    /\ UNCHANGED <<cachedTools, tempDir>>

\* the upstream query and the download are only reached with an empty cache
UpstreamOnlyWithEmptyCache ==
    pc \in {"GetLatestRelease", "DownloadTool"} => cachedTools = {}

\* C29 as stated: whenever the tool cache holds a version, provisioning
\* selects the lexicographically greatest cached version string, returns its
\* path, and issues no upstream release query and no download
C29_CachedVersionSelected ==
    /\ []UpstreamOnlyWithEmptyCache
    /\ [][(pc = "SetupBundleTool" /\ cachedTools # {}) => SelectsGreatestCached]_vars

\* C29 amended: the same, when the Java runtime is found on the PATH; without
\* it provisioning fails before the cache is looked at
C29_CachedVersionSelectedWithJava ==
    /\ []UpstreamOnlyWithEmptyCache
    /\ [][(pc = "SetupBundleTool" /\ cachedTools # {} /\ javaPath # None)
            => SelectsGreatestCached]_vars
    /\ [][(pc = "SetupBundleTool" /\ javaPath = None)
            => (failed' # None /\ UNCHANGED <<toolPath, cachedTools, tempDir, effects>>)]_vars

\* "1.9.0" was selected from a cache that also holds "1.15.6"
C29_Witness ==
    /\ pc = "Exec"
    /\ Cardinality(cachedTools) = 2
    /\ toolPath = Some([kind |-> "cache", version |-> <<49, 46, 57, 46, 48>>])
    /\ \A n \in DOMAIN effects : effects[n][1] = "find"

\* the failure messages of setupBundleTool and of the calls it awaits
ProvisioningFailures ==
    { "bundletool requires Java to be installed",
      "repos.getLatestRelease rejected",
      "Failed to get latest bundletool release",
      "Failed to find bundletool jar file in manifest release",
      "tc.downloadTool rejected",
      "Downloaded bundletool jar is empty",
      "tc.cacheDir rejected" }

\* the invocation has failed in provisioning
ProvisioningFailed == failed # None /\ Val(failed) \in ProvisioningFailures

\* a failed provisioning has ended the run, written no cache entry and made
\* no tool resolvable; what this invocation cached is a non-empty download
NothingCachedOnFailure ==
    /\ ProvisioningFailed =>
          /\ pc = "done"
          /\ toolPath = None
          /\ \A e \in cachedTools : e.job # job
          /\ Len(extractions) = job /\ extractions[job].info = None
    /\ \A e \in cachedTools :
          e.job = job => \A f \in tempDir : f.jar = e.version => f.size > 0

\* this step meets one of the three failures: the runtime is missing, the
\* release has no .jar asset, or the download has size zero
MeetsProvisioningFailure ==
    \/ pc = "SetupBundleTool" /\ javaPath = None
    \/ /\ pc = "GetLatestRelease"
       /\ Len(effects') = Len(effects) + 1
       /\ effects'[Len(effects')][2] = "ok"
       /\ effects'[Len(effects')][3].status = "200"
       /\ ~effects'[Len(effects')][3].jar
    \/ /\ pc = "DownloadTool"
       /\ \E f \in tempDir' : f.size = 0

\* C30: on every provisioning failure (runtime missing, no .jar release
\* asset, zero-size download) no cache entry is written and the run fails; a
\* zero-size download is never cached or made resolvable as the tool
C30_FailedProvisioningCachesNothing ==
    /\ []NothingCachedOnFailure
    /\ [][MeetsProvisioningFailure =>
            (ProvisioningFailed' /\ pc' = "done" /\ UNCHANGED <<cachedTools, toolPath>>)]_vars

\* a run failed on a zero-size download, with nothing cached
C30_Witness ==
    /\ failed = Some("Downloaded bundletool jar is empty")
    /\ \E f \in tempDir : f.size = 0
    /\ cachedTools = {}
    /\ toolPath = None
    /\ pc = "done"

(* ------------------------------ tool cache ------------------------------ *)

\* positions in the log of tool effects
EffectIndices == DOMAIN effects

\* what goes to the upstream repository or writes the cache
UpstreamEffects == {"getLatestRelease", "download", "cacheDir"}

\* an invocation has provisioned the tool: tc.cacheDir returned
ProvisionedAt(n) == effects[n][1] = "cacheDir"

ObservedEmptyCache(p) == invocations[p].cachedTools = Some({})

\* invocation p has returned from setupBundleTool without an error
Provisioned(p) == invocations[p].pc = "done" /\ invocations[p].failed = None

\* C32: the tool cache is read and then written without a lock: an
\* invocation that found the cache empty and met no error has queried,
\* downloaded and written the entry of its release tag, whatever the other
\* invocation did meanwhile; and an invocation that has not returned can
\* always take its next step, so it neither waits for the other nor is
\* excluded by it
C32_CacheWithoutLock ==
    \A p \in Invocations :
       /\ invocations[p].pc # "done" => ENABLED StepOf(p)
       /\ (ObservedEmptyCache(p) /\ Provisioned(p)) =>
             /\ invocations[p].log = <<"getLatestRelease", "download", "cacheDir">>
             /\ \E e \in cachedTools : invocations[p].toolPath = Some(CachedTool(e.version))

\* both invocations found the cache empty, both downloaded and both wrote the
\* entry of the same version
C32_Witness ==
    /\ \A p \in Invocations :
          /\ ObservedEmptyCache(p)
          /\ Provisioned(p)
          /\ invocations[p].log = <<"getLatestRelease", "download", "cacheDir">>
    /\ \A p, q \in Invocations : invocations[p].toolPath = invocations[q].toolPath
    /\ Cardinality(cachedTools) = 1

(* ---------------------------- order of calls ---------------------------- *)

\* the stages that loop over input items
LoopOps ==
    { "edits.expansionfiles.upload", "edits.deobfuscationfiles.upload",
      "edits.listings.update", "edits.images.upload" }

\* where the item of a looped call stands in the input: a file in the
\* directory listing, a listing or an image in its metadata array
InputPosition(c) ==
    IF c.op \in {"edits.expansionfiles.upload", "edits.deobfuscationfiles.upload"}
    THEN CHOOSE n \in DOMAIN dirItems :
            dirItems[n].stem = c.arg.file.stem /\ dirItems[n].ext = c.arg.file.ext
    ELSE IF c.op = "edits.listings.update"
    THEN CHOOSE n \in DOMAIN inputs.metadata.value.listing.items :
            inputs.metadata.value.listing.items[n] = c.arg.requestBody
    ELSE CHOOSE n \in DOMAIN Val(inputs.metadata.value.images) :
            Val(inputs.metadata.value.images)[n].language = c.arg.language

\* C33: within one invocation at most one remote call is outstanding (every
\* call issued has its outcome before the next is issued), and within each
\* stage the items are processed in the order of the input: expansion and
\* symbol files in the order of the directory listing, listings and images
\* in the order of the metadata arrays
C33_OneAtATimeInInputOrder ==
    /\ \A k \in CallIndices : calls[k].res \in {"ok", "notok", "throw"}
    /\ \A j, k \in CallIndices :
          (j < k /\ calls[k].op \in LoopOps /\ calls[j].op = calls[k].op)
             => InputPosition(calls[j]) < InputPosition(calls[k])

\* a committed run that sent two files, two listings and two images
C33_Witness ==
    /\ committed
    /\ \E j, k \in CallIndices :
          /\ j < k
          /\ calls[j].op = calls[k].op
          /\ calls[k].op \in {"edits.expansionfiles.upload", "edits.deobfuscationfiles.upload"}
    /\ Cardinality({ k \in CallIndices : calls[k].op = "edits.listings.update" }) = 2
    /\ Cardinality({ k \in CallIndices : calls[k].op = "edits.images.upload" }) = 2

(* ------------------------------- retries -------------------------------- *)

\* the two operations that upload the primary artifact
PrimaryUploads == {"edits.apks.upload", "edits.bundles.upload"}

\* C34: no remote operation is retried: of two calls of a run, the later is
\* never the same operation as the earlier unless both belong to a loop and
\* carry different items, and a run uploads one primary artifact at most;
\* this holds whether or not the earlier call failed
C34_NothingRetried ==
    \A j, k \in CallIndices :
       j < k =>
          /\ ~(calls[j].op \in PrimaryUploads /\ calls[k].op \in PrimaryUploads)
          /\ calls[j].op = calls[k].op =>
                /\ calls[k].op \in
                      { "edits.expansionfiles.upload", "edits.deobfuscationfiles.upload",
                        "edits.listings.update", "edits.images.upload" }
                /\ calls[j].arg # calls[k].arg

\* a committed run in which a symbol archive, a listing and an image failed,
\* each sent once
C34_Witness ==
    /\ committed
    /\ \A op \in {"edits.deobfuscationfiles.upload", "edits.listings.update", "edits.images.upload"} :
          \E k \in CallIndices : calls[k].op = op /\ calls[k].res # "ok"

(* ----------------------------- termination ------------------------------ *)

\* the run is over with exactly one of the two outcomes
TerminalOutcome == pc = "done" /\ (committed <=> failed = None)

\* C35: when every remote call and every tool run returns, every run
\* eventually reaches a terminal outcome, Committed or Failed, stays there,
\* and is never both committed and failed
C35_OneTerminalOutcome ==
    /\ <>[]TerminalOutcome
    /\ [](~(committed /\ failed # None))
    /\ [](pc = "done" => TerminalOutcome)

\* a run over with the outcome Failed after the edit was opened
C35_Witness ==
    /\ TerminalOutcome
    /\ failed # None
    /\ \E k \in CallIndices : calls[k].op = "edits.insert" /\ calls[k].res = "ok"

(* ----------------------------- release list ----------------------------- *)

\* the answers of edits.tracks.get that came before call k
TrackReadsBefore(k) ==
    { g \in CallIndices : g < k /\ calls[g].op = "edits.tracks.get" /\ calls[g].res = "ok" }

\* C36: the release list of every track update is the singleton of the new
\* release (the one with the version code the upload returned): no release
\* the track read returned is in it, whatever the track held
C36_SingletonReleaseList ==
    \A k \in TrackUpdates :
       /\ Len(calls[k].arg.releases) = 1
       /\ CarryingUploadedCode(calls[k].arg.releases) = {1}
       /\ \A g \in TrackReadsBefore(k) :
             \A n \in 1..Len(calls[g].data) : calls[k].arg.releases[1] # calls[g].data[n]

\* a track update with one release, accepted, on a track read with two
C36_Witness ==
    \E k \in TrackUpdates :
       /\ calls[k].res = "ok"
       /\ Len(calls[k].arg.releases) = 1
       /\ \E g \in TrackReadsBefore(k) : Len(calls[g].data) = 2

(* ------------------------- version code of uploads ----------------------- *)

\* the uploads tied to the version code of the primary artifact
VersionedUploads ==
    { k \in CallIndices :
         calls[k].op \in {"edits.expansionfiles.upload", "edits.deobfuscationfiles.upload"} }

\* C37: every expansion-file upload and every symbol-archive upload comes
\* after a successful primary upload of the run that returned a version
\* code, and carries that version code as its apkVersionCode
C37_AuxiliaryCarriesUploadedCode ==
    \A k \in VersionedUploads :
       \E j \in 1..(k - 1) :
          /\ calls[j].op \in {"edits.apks.upload", "edits.bundles.upload"}
          /\ calls[j].res = "ok"
          /\ calls[j].data # None
          /\ Val(calls[j].data) # 0
          /\ calls[k].arg.apkVersionCode = Val(calls[j].data)

\* a run that sent two expansion files after the APK
C37_Witness ==
    \E j, k \in VersionedUploads :
       /\ j < k
       /\ calls[j].op = "edits.expansionfiles.upload"
       /\ calls[k].op = "edits.expansionfiles.upload"
       /\ calls[k].arg.apkVersionCode = 12

(* --------------------------- deobfuscation type -------------------------- *)

SymbolUploads == { k \in CallIndices : calls[k].op = "edits.deobfuscationfiles.upload" }

\* C38: every symbol upload is of a file with suffix .zip and is issued with
\* the deobfuscation type nativeCode; the type proguard is sent in no run
C38_AlwaysNativeCode ==
    \A k \in SymbolUploads :
       /\ calls[k].arg.file.ext = "zip"
       /\ calls[k].arg.deobfuscationFileType = "nativeCode"

\* a run that sent symbols.zip and mapping.zip
C38_Witness ==
    \E j, k \in SymbolUploads :
       /\ calls[j].arg.file.stem = "symbols"
       /\ calls[k].arg.file.stem = "mapping"
       /\ calls[k].arg.deobfuscationFileType = "nativeCode"

====
